---- MODULE Spec2Model ----
(***************************************************************************)
(* A model of the nanobot core: the message bus (bus/queue.py), the agent  *)
(* loop (agent/loop.py), the tool contract and registry                    *)
(* (agent/tools/base.py, agent/tools/registry.py) and the channel access   *)
(* check (channels/base.py).                                               *)
(*                                                                         *)
(* Strings are sequences of tokens: <<"x", ":", "c">> is the Python string *)
(* "x:c".  A token other than ":" and "|" stands for a run of characters   *)
(* that holds neither separator; where a length is taken, every token is   *)
(* one character.  An f-string is a concatenation.                         *)
(*                                                                         *)
(* Variables marked "history" record what has happened; the program does   *)
(* not hold them.                                                          *)
(***************************************************************************)
EXTENDS Integers, Sequences, FiniteSets, TLC

VARIABLES
    inbound,        \* MessageBus.inbound: the queued InboundMessage records
    outbound,       \* MessageBus.outbound: the queued OutboundMessage records
    nPub,           \* history: how many publish_inbound calls have completed
    conLog,         \* history: the uids consume_inbound returned, in order
    nOut,           \* history: how many publish_outbound calls have completed
    outConLog,      \* history: the uids consume_outbound returned, in order
    running,        \* AgentLoop._running
    pc,             \* where the run() task is suspended
    msg,            \* run(): the InboundMessage being processed
    iteration,      \* _process_message: iteration
    final_content,  \* _process_message: final_content
    histRead,       \* _process_message: what session.get_history() returned
    messages,       \* _process_message: the message list sent to the provider
    toolsLeft,      \* _process_message: the tool calls of the response still to execute
    origin,         \* _process_message: the (channel, chat_id) the turn answers to
    toolCtx,        \* MessageTool._default_channel / _default_chat_id
    sessions,       \* SessionManager._cache: session key -> Session.messages
    disk,           \* the session files: session key -> the messages last saved
    nCalls,         \* history: provider.chat calls made by the current turn
    active,         \* history: the uids of the inbounds run() has in processing
    lastEmit,       \* history: the last outbound run() itself published, with its inbound
    nEmit,          \* history: outbounds run() itself published for the inbound in msg
    tools,          \* ToolRegistry._tools: name -> Tool
    lastExec,       \* history: the last ToolRegistry.execute call and its outcome
    nExec,          \* history: how many execute calls were made
    allow_from,     \* BaseChannel.config.allow_from
    handled,        \* history: the sender_id of every _handle_message call, in order
    validated,      \* history: the last Tool.validate_params call and what it returned
    dpc,            \* where the process_direct call in progress is ("idle": none)
    dmsg,           \* process_direct: msg
    diteration,     \* process_direct: iteration of its _process_message
    dmessages,      \* process_direct: messages of its _process_message
    dtoolsLeft,     \* process_direct: the tool calls of the response not yet executed
    dreturned,      \* history: what the last process_direct call returned or raised
    nDirect,        \* history: how many process_direct calls were made
    spawned,        \* history: the origin of every announced sub-agent result, in order
    subs,           \* MessageBus._outbound_subscribers: channel -> callbacks
    busRunning,     \* MessageBus._running
    qpc,            \* where MessageBus.dispatch_outbound is
    qmsg,           \* dispatch_outbound: msg
    qidx,           \* dispatch_outbound: how many callbacks of the list were called
    qcalls,         \* history: the callback calls for the last message taken
    qraisedAt,      \* history: the uid of the first message a callback raised for
    channels,       \* ChannelManager.channels: the names of the adapters
    mpc,            \* where ChannelManager._dispatch_outbound is
    mmsg,           \* _dispatch_outbound: msg
    mlog,           \* history: every message the dispatcher took, with its send calls
    cancelled,      \* history: stop_all has cancelled the dispatch task
    chanCfg,        \* config.channels: name -> enabled, and what goes wrong for it
    spc,            \* where the construction and start_all of the ChannelManager are
    started,        \* history: the adapters whose start() was called
    mstop,          \* where stop_all is
    stopLog,        \* history: the stop() calls of stop_all, in order
    akind,          \* which adapter with a reconnect loop
    apc,            \* where its start() (or bot task) is
    arunning,       \* its _running
    nAttempts,      \* history: how many connection attempts it has begun
    lastGap,        \* history: what preceded the latest attempt
    persist,        \* a session, its file, the session loaded from it and its file
    hist,           \* a session's messages, a limit, and what get_history returned
    lastCall,       \* history: the latest register or unregister call and the registry before it
    hb,             \* the HeartbeatService, HEARTBEAT.md, and the history of its latest tick
    cron,           \* the CronTool's context, the jobs of the CronService, the latest add
    store,          \* the session files of a SessionManager, by path
    mochat,         \* the MochatChannel's buffers, seen ids and cursors, and what it forwarded
    typing          \* the typing tasks of an adapter, by chat

busVars == <<inbound, outbound, nPub, conLog, nOut, outConLog>>
loopVars == <<running, pc, msg, iteration, final_content, histRead, messages, toolsLeft, origin,
              toolCtx, sessions, disk, nCalls, active, lastEmit, nEmit>>
regVars == <<tools, lastExec, nExec>>
accVars == <<allow_from, handled>>
valVars == <<validated>>
dirVars == <<dpc, dmsg, diteration, dmessages, dtoolsLeft, dreturned, nDirect>>
subVars == <<spawned>>
qVars == <<subs, busRunning, qpc, qmsg, qidx, qcalls, qraisedAt>>
mVars == <<channels, mpc, mmsg, mlog, cancelled>>
sVars == <<chanCfg, spc, started>>
stopVars == <<mstop, stopLog>>
aVars == <<akind, apc, arunning, nAttempts, lastGap>>
lateVars == <<cron, store, mochat, typing>>
tailVars == <<aVars, persist, hist, lastCall, hb, lateVars>>
oldVars == <<busVars, loopVars, regVars, accVars, valVars, dirVars, subVars, qVars, mVars,
             sVars, stopVars, aVars, persist, hist, lastCall, hb>>
ext2Vars == <<sVars, stopVars, tailVars>>
coreVars == <<valVars, dirVars, subVars, qVars>>
extVars == <<valVars, dirVars, subVars, qVars, mVars, ext2Vars>>
extButVal == <<dirVars, subVars, qVars, mVars, ext2Vars>>
extButDir == <<valVars, subVars, qVars, mVars, ext2Vars>>
extButSub == <<valVars, dirVars, qVars, mVars, ext2Vars>>
extButQ == <<valVars, dirVars, subVars, mVars, ext2Vars>>
extButM == <<valVars, dirVars, subVars, qVars, ext2Vars>>
vars == <<busVars, loopVars, regVars, accVars, extVars>>

(***************************************************************************)
(* Bounds of the model.                                                    *)
(***************************************************************************)
MaxSubs == 2            \* subscribe_outbound calls in one behaviour
MaxSpawn == 1           \* sub-agent results announced in one behaviour
MaxLen == 2             \* tokens of an origin chat_id
MaxResetTurns == 2      \* inbound messages of the chat that sends /reset
MaxDirect == 1          \* process_direct calls in one behaviour
MaxTurns == 1           \* inbound messages while process_direct is in use
MaxMsgs == 2            \* publish_inbound calls in one behaviour
MaxOut == 2             \* publish_outbound calls by other tasks (the bus alone)
max_iterations == 2     \* AgentLoop.max_iterations as configured for the check
MaxExec == 2            \* ToolRegistry.execute calls in one behaviour
MaxHandled == 2         \* BaseChannel._handle_message calls in one behaviour
MaxAttempts == 3        \* connection attempts of an adapter in one behaviour
MaxStored == 2          \* messages of a stored session
MaxTicks == 2           \* heartbeat ticks in one behaviour
MaxJobs == 2             \* jobs of the CronService
MaxSaves == 3            \* turns saved by a SessionManager in one behaviour
MaxEvents == 4           \* events that reach a Mochat target in one behaviour
MAX_SEEN_MESSAGE_IDS == 2  \* mochat.MAX_SEEN_MESSAGE_IDS (2000), scaled down
MaxPayloads == 2         \* watch payloads in one behaviour
MaxCursor == 2           \* the largest cursor or seq of a payload

(***************************************************************************)
(* Strings.                                                                *)
(***************************************************************************)
None == <<"<None>">>    \* Python's None where a string may also stand
SYSTEM == <<"system">>
COLON == <<":">>

Range(q) == {q[i] : i \in 1..Len(q)}

\* str.find: the first position of token c in s, 0 when absent
IndexOf(s, c) ==
    IF \E i \in 1..Len(s) : s[i] = c
    THEN CHOOSE i \in 1..Len(s) : s[i] = c /\ \A j \in 1..(i - 1) : s[j] # c
    ELSE 0

\* str.split(sep): the parts between the separators, empty parts kept
RECURSIVE Split(_, _)
Split(s, sep) ==
    LET i == IndexOf(s, sep) IN
    IF i = 0 THEN <<s>>
    ELSE <<SubSeq(s, 1, i - 1)>> \o Split(SubSeq(s, i + 1, Len(s)), sep)

\* sep.join(parts)
RECURSIVE Join(_, _)
Join(parts, sep) ==
    IF parts = <<>> THEN <<>>
    ELSE IF Len(parts) = 1 THEN parts[1]
    ELSE parts[1] \o <<sep>> \o Join(Tail(parts), sep)

\* InboundMessage.session_key: f"{channel}:{chat_id}"
session_key(channel, chat_id) == channel \o COLON \o chat_id

\* The origin parsed with rsplit(":", 1): split at the last ":"
ParseOrigin_mut(chat_id) ==
    LET parts == Split(chat_id, ":")
        n == Len(parts)
    IN  IF n > 1
        THEN [channel |-> Join(SubSeq(parts, 1, n - 1), ":"), chat_id |-> parts[n]]
        ELSE [channel |-> <<"cli">>, chat_id |-> chat_id]

\* _process_system_message: the origin parsed from chat_id with split(":", 1),
\* and the "cli" fallback when chat_id holds no ":"
ParseOrigin(chat_id) ==
    LET i == IndexOf(chat_id, ":") IN
    IF i > 0
    THEN [channel |-> SubSeq(chat_id, 1, i - 1),
          chat_id |-> SubSeq(chat_id, i + 1, Len(chat_id))]
    ELSE [channel |-> <<"cli">>, chat_id |-> chat_id]

(***************************************************************************)
(* Bus events (bus/events.py) and provider values (providers/base.py).     *)
(***************************************************************************)
\* InboundMessage; uid is the identity of the object (history)
InboundMessage(channel, sender_id, chat_id, content, metadata) ==
    [channel |-> channel, sender_id |-> sender_id, chat_id |-> chat_id,
     content |-> content, metadata |-> metadata, uid |-> 0]

\* OutboundMessage; metadata defaults to the empty dict.  A metadata dict is the
\* set of its <<key, value>> pairs.
OutboundMessage(channel, chat_id, content, metadata) ==
    [channel |-> channel, chat_id |-> chat_id, content |-> content,
     metadata |-> metadata, uid |-> 0]

ThreadMeta == {<<"thread_ts", "1">>}

\* What producers publish: a user message with adapter metadata, and system
\* messages whose chat_id holds two ":" or none.
InboundInputs ==
    { InboundMessage(<<"x">>, <<"u">>, <<"c">>, <<"hello">>, ThreadMeta),
      InboundMessage(SYSTEM, <<"subagent">>, <<"x", ":", "c", ":", "d">>, <<"result">>, {}),
      InboundMessage(SYSTEM, <<"subagent">>, <<"direct">>, <<"result">>, {}) }

\* What tasks other than the agent loop publish on outbound
OutboundInputs ==
    { OutboundMessage(<<"x">>, <<"c">>, <<"note">>, {}),
      OutboundMessage(<<"y">>, <<"d">>, <<"tick">>, {}) }

\* JSON values as Python holds them: a tag and the value.  A bool carries 0 or 1.
JStr(s) == [t |-> "str", v |-> s]
JInt(n) == [t |-> "int", v |-> n]
JBool(b) == [t |-> "bool", v |-> IF b THEN 1 ELSE 0]
JList(q) == [t |-> "list", v |-> q]
JDict(items) == [t |-> "dict", v |-> items]
Item(key, value) == [k |-> key, v |-> value]

\* ToolCallRequest
ToolCallRequest(id, name, arguments) == [id |-> id, name |-> name, arguments |-> arguments]

\* An echo call without its required text, and a message call to the current chat
BadEchoCall == ToolCallRequest("t1", "echo", JDict(<<>>))
MessageCall == ToolCallRequest("t2", "message", JDict(<<Item("content", JStr(<<"n">>))>>))

\* LLMResponse
LLMResponse(content, tool_calls, reasoning_content) ==
    [content |-> content, tool_calls |-> tool_calls, reasoning_content |-> reasoning_content,
     finish_reason |-> "stop"]

\* LLMResponse.has_tool_calls
has_tool_calls(response) == Len(response.tool_calls) > 0

\* What provider.chat may return
ProviderResponses ==
    { LLMResponse(<<"hi">>, <<>>, None),
      LLMResponse(None, <<>>, None),
      LLMResponse(None, <<BadEchoCall, MessageCall>>, <<"why">>) }

\* The longest tool_calls list a response carries
MaxToolCalls ==
    CHOOSE n \in 0..8 :
        /\ \A r \in ProviderResponses : Len(r.tool_calls) <= n
        /\ \E r \in ProviderResponses : Len(r.tool_calls) = n

NO_RESPONSE == <<"I've completed processing but have no response to give.">>
BACKGROUND_DONE == <<"Background task completed.">>

(***************************************************************************)
(* The tool contract (agent/tools/base.py).  A dict value is the sequence  *)
(* of its [k, v] items in insertion order; a schema is a record.           *)
(***************************************************************************)
DictKeys(d) == {d[i].k : i \in 1..Len(d)}
DictGet(d, key) == d[CHOOSE i \in 1..Len(d) : d[i].k = key].v

\* Tool._TYPE_MAP with isinstance: the tags of the values each schema type accepts
\* (bool is a subclass of int)
_TYPE_MAP ==
    [string  |-> {"str"},
     integer |-> {"int", "bool"},
     number  |-> {"int", "bool", "float"},
     boolean |-> {"bool"},
     array   |-> {"list"},
     object  |-> {"dict"}]

\* dict.get(key, default) on a schema
SchemaGet(schema, key, default) == IF key \in DOMAIN schema THEN schema[key] ELSE default

IsNumber(val) == val.t \in {"int", "bool", "float"}

\* Python's == between two values: numbers by value, the rest by type and value
PyEq(a, b) == IF IsNumber(a) /\ IsNumber(b) THEN a.v = b.v ELSE (a.t = b.t /\ a.v = b.v)

\* repr of a scalar, as an f-string shows it inside a list
PyRepr(val) ==
    IF val.t = "str" THEN <<"'">> \o val.v \o <<"'">>
    ELSE IF val.t = "bool" THEN (IF val.v = 1 THEN <<"True">> ELSE <<"False">>)
    ELSE <<ToString(val.v)>>

\* f"{path + '.' + k if path else k}"
PathKey(path, k) == IF path # <<>> THEN path \o <<".", k>> ELSE <<k>>

\* f"{path}[{i}]" if path else f"[{i}]", i counted from 0
PathIndex(path, i) == path \o <<"[", ToString(i), "]">>

RECURSIVE _validate(_, _, _)
RECURSIVE ValidateProps(_, _, _)
RECURSIVE ValidateItems(_, _, _, _)

\* _validate: for k, v in val.items(): if k in props: errors.extend(...)
ValidateProps(items, props, path) ==
    IF items = <<>> THEN <<>>
    ELSE (IF items[1].k \in DOMAIN props
          THEN _validate(items[1].v, props[items[1].k], PathKey(path, items[1].k))
          ELSE <<>>)
         \o ValidateProps(Tail(items), props, path)

\* _validate: for i, item in enumerate(val): errors.extend(...)
ValidateItems(elems, schema, path, i) ==
    IF elems = <<>> THEN <<>>
    ELSE _validate(elems[1], schema, PathIndex(path, i))
         \o ValidateItems(Tail(elems), schema, path, i + 1)

\* Tool._validate: the list of error strings
_validate(val, schema, path) ==
    LET t == SchemaGet(schema, "type", "<None>")
        label == IF path # <<>> THEN path ELSE <<"parameter">>
        enum == IF "enum" \in DOMAIN schema /\ ~ \E i \in 1..Len(schema.enum) : PyEq(schema.enum[i], val)
                THEN << label \o <<" must be one of ", "[">>
                        \o Join([i \in 1..Len(schema.enum) |-> PyRepr(schema.enum[i])], ", ")
                        \o <<"]">> >>
                ELSE <<>>
        lo == IF t \in {"integer", "number"} /\ "minimum" \in DOMAIN schema
              THEN IF val.v < schema.minimum
                   THEN << label \o <<" must be >= ", ToString(schema.minimum)>> >> ELSE <<>>
              ELSE <<>>
        hi == IF t \in {"integer", "number"} /\ "maximum" \in DOMAIN schema
              THEN IF val.v > schema.maximum
                   THEN << label \o <<" must be <= ", ToString(schema.maximum)>> >> ELSE <<>>
              ELSE <<>>
        short == IF t = "string" /\ "minLength" \in DOMAIN schema
                 THEN IF Len(val.v) < schema.minLength
                      THEN << label \o <<" must be at least ", ToString(schema.minLength), " chars">> >>
                      ELSE <<>>
                 ELSE <<>>
        long == IF t = "string" /\ "maxLength" \in DOMAIN schema
                THEN IF Len(val.v) > schema.maxLength
                     THEN << label \o <<" must be at most ", ToString(schema.maxLength), " chars">> >>
                     ELSE <<>>
                ELSE <<>>
        required == SchemaGet(schema, "required", <<>>)
        missing == IF t = "object"
                   THEN LET absent == SelectSeq(required, LAMBDA k : k \notin DictKeys(val.v))
                        IN [i \in 1..Len(absent) |-> <<"missing required ">> \o PathKey(path, absent[i])]
                   ELSE <<>>
        props == IF t = "object"
                 THEN ValidateProps(val.v, SchemaGet(schema, "properties", <<>>), path)
                 ELSE <<>>
        elems == IF t = "array" /\ "items" \in DOMAIN schema
                 THEN ValidateItems(val.v, schema.items, path, 0)
                 ELSE <<>>
    IN  IF t \in DOMAIN _TYPE_MAP /\ val.t \notin _TYPE_MAP[t]
        THEN << label \o <<" should be ", t>> >>
        ELSE enum \o lo \o hi \o short \o long \o missing \o props \o elems

\* What a call does: return a value or raise an exception with a message
Return(value) == [exc |-> FALSE, value |-> value]
Raise(message) == [exc |-> TRUE, value |-> message]

\* Tool.validate_params: the error list, or ValueError for a schema that is not an object
validate_params(tool, params) ==
    LET schema == tool.parameters IN
    IF SchemaGet(schema, "type", "object") # "object"
    THEN Raise(<<"Schema must be object type, got ", "'", schema.type, "'">>)
    ELSE Return(_validate(params,
                          [key \in DOMAIN schema \cup {"type"} |->
                              IF key = "type" THEN "object" ELSE schema[key]],
                          <<>>))

\* A Tool: its name and its parameters schema
Tool(name, parameters) == [name |-> name, parameters |-> parameters]

StringSchema == [type |-> "string"]

\* A tool with one required string parameter
EchoTool ==
    Tool("echo", [type |-> "object",
                  properties |-> [text |-> [type |-> "string", minLength |-> 1]],
                  required |-> <<"text">>])

\* MessageTool.parameters (agent/tools/message.py)
MessageTool ==
    Tool("message", [type |-> "object",
                     properties |-> [content |-> StringSchema, channel |-> StringSchema,
                                     chat_id |-> StringSchema],
                     required |-> <<"content">>])

\* A tool with a bounded integer, an enum and an array parameter
CountTool ==
    Tool("count", [type |-> "object",
                   properties |-> [n |-> [type |-> "integer", minimum |-> 1, maximum |-> 3],
                                   mode |-> [type |-> "string", enum |-> <<JStr(<<"a">>), JStr(<<"b">>)>>],
                                   tags |-> [type |-> "array", items |-> StringSchema]],
                   required |-> <<"n">>])

\* A tool whose schema is not an object: validate_params raises ValueError
BadSchemaTool == Tool("bad", [type |-> "array"])

\* The tools registered and removed when the registry is exercised alone
ToolInputs == {EchoTool, CountTool, BadSchemaTool}
ToolNames == {tl.name : tl \in ToolInputs} \cup {"nope"}

(***************************************************************************)
(* ToolRegistry (agent/tools/registry.py).  The registry is a function     *)
(* from tool names to tools.                                               *)
(***************************************************************************)
EmptyRegistry == [n \in {} |-> EchoTool]

\* self._tools.setdefault(tool.name, tool): the tool registered first stays
register_mut(reg, tool) ==
    [n \in DOMAIN reg \cup {tool.name} |-> IF n \in DOMAIN reg THEN reg[n] ELSE tool]

\* ToolRegistry.register: self._tools[tool.name] = tool
register(reg, tool) ==
    [n \in DOMAIN reg \cup {tool.name} |-> IF n = tool.name THEN tool ELSE reg[n]]

\* ToolRegistry.unregister: self._tools.pop(name, None)
unregister(reg, name) == [n \in DOMAIN reg \ {name} |-> reg[n]]

\* ToolRegistry.has
has(reg, name) == name \in DOMAIN reg

\* The try block without the check of the error list
TryBody_mut(tool, name, params, body) ==
    LET errors == validate_params(tool, params) IN
    IF errors.exc
    THEN [exc |-> TRUE, value |-> errors.value, ran |-> FALSE]
    ELSE [exc |-> body.exc, value |-> body.value, ran |-> TRUE]

\* execute: the body of the try block.  body is what tool.execute(**params) does
\* when it is reached; ran tells whether it was reached.
TryBody(tool, name, params, body) ==
    LET errors == validate_params(tool, params) IN
    IF errors.exc
    THEN [exc |-> TRUE, value |-> errors.value, ran |-> FALSE]
    ELSE IF errors.value # <<>>
    THEN [exc |-> FALSE,
          value |-> <<"Error: Invalid parameters for tool '", name, "': ">>
                    \o Join(errors.value, "; "),
          ran |-> FALSE]
    ELSE [exc |-> body.exc, value |-> body.value, ran |-> TRUE]

\* execute without its except clause
Catch_mut(name, r) == r

\* execute: except Exception as e: return f"Error executing {name}: {str(e)}"
Catch(name, r) ==
    IF r.exc
    THEN [exc |-> FALSE, value |-> <<"Error executing ", name, ": ">> \o r.value, ran |-> r.ran]
    ELSE r

\* ToolRegistry.execute
execute(reg, name, params, body) ==
    IF ~has(reg, name)
    THEN [exc |-> FALSE, value |-> <<"Error: Tool '", name, "' not found">>, ran |-> FALSE]
    ELSE Catch(name, TryBody(reg[name], name, params, body))

\* A tool result keyed by the tool's name instead of the call's id
add_tool_result_mut(msgs, tool_call_id, tool_name, result) ==
    Append(msgs, [role |-> "tool", tool_call_id |-> tool_name,
                  name |-> tool_name, content |-> result])

\* ContextBuilder.add_tool_result
add_tool_result(msgs, tool_call_id, tool_name, result) ==
    Append(msgs, [role |-> "tool", tool_call_id |-> tool_call_id,
                  name |-> tool_name, content |-> result])

\* _process_message: result = await self.tools.execute(...); messages = add_tool_result(...).
\* When execute raises, the exception leaves the loop and messages is not extended.
ToolStep(reg, msgs, tc, body) ==
    LET r == execute(reg, tc.name, tc.arguments, body) IN
    [exc |-> r.exc, value |-> r.value, ran |-> r.ran,
     messages |-> IF r.exc THEN msgs ELSE add_tool_result(msgs, tc.id, tc.name, r.value)]

(***************************************************************************)
(* MessageBus (bus/queue.py).  Both queues are asyncio.Queue() with no     *)
(* maxsize: put never waits, get waits while the queue is empty.           *)
(***************************************************************************)
\* A put that drops the message when the queue already holds one
QueuePut_mut(q, m) == IF Len(q) >= 1 THEN q ELSE Append(q, m)

\* asyncio.Queue.put on the queue q
QueuePut(q, m) == Append(q, m)

\* A get that returns the newest item
QueueGet_mut(q) == [item |-> q[Len(q)], rest |-> SubSeq(q, 1, Len(q) - 1)]

\* asyncio.Queue.get on the non-empty queue q: the item returned and what stays queued
QueueGet(q) == [item |-> Head(q), rest |-> Tail(q)]

\* MessageBus.publish_inbound
publish_inbound(m) ==
    /\ inbound' = QueuePut(inbound, [m EXCEPT !.uid = nPub + 1])
    /\ nPub' = nPub + 1

\* MessageBus.publish_outbound
publish_outbound(m) ==
    /\ outbound' = QueuePut(outbound, [m EXCEPT !.uid = nOut + 1])
    /\ nOut' = nOut + 1

\* MessageBus.consume_inbound: returns QueueGet(inbound).item
consume_inbound ==
    /\ inbound # <<>>
    /\ inbound' = QueueGet(inbound).rest
    /\ conLog' = Append(conLog, QueueGet(inbound).item.uid)

\* MessageBus.consume_outbound: returns QueueGet(outbound).item
consume_outbound ==
    /\ outbound # <<>>
    /\ outbound' = QueueGet(outbound).rest
    /\ outConLog' = Append(outConLog, QueueGet(outbound).item.uid)

(***************************************************************************)
(* Sessions (session/manager.py) and the context builder (agent/context.py)*)
(***************************************************************************)
DefaultMaxMessages == 50

\* A message put in front of the session's messages
add_message_mut(ss, key, role, content) ==
    [ss EXCEPT ![key] = <<[role |-> role, content |-> content]>> \o @]

\* Session.add_message on the cached session of key (created by get_or_create);
\* the timestamp of a message is left out
add_message(ss, key, role, content) ==
    [ss EXCEPT ![key] = Append(@, [role |-> role, content |-> content])]

\* SessionManager.get_or_create: the cached session, or a new empty one
get_or_create(ss, key) ==
    IF key \in DOMAIN ss THEN ss
    ELSE [k \in DOMAIN ss \cup {key} |-> IF k \in DOMAIN ss THEN ss[k] ELSE <<>>]

\* Session.get_history: self.messages[-max_messages:] when longer than max_messages
\* (the slice [-0:] is the whole list), role and content of each
get_history(session, max_messages) ==
    LET n == Len(session)
        recent == IF n > max_messages /\ max_messages # 0
                  THEN SubSeq(session, n - max_messages + 1, n)
                  ELSE session
    IN  [i \in 1..Len(recent) |-> [role |-> recent[i].role, content |-> recent[i].content]]

\* ContextBuilder.build_messages: system prompt, history, the current user message
build_messages(history, current_message, channel, chat_id) ==
    LET session_part == IF channel # <<>> /\ chat_id # <<>>
                        THEN <<"Channel: ">> \o channel \o <<"Chat ID: ">> \o chat_id
                        ELSE <<>>
    IN  <<[role |-> "system", content |-> <<"prompt">> \o session_part]>>
        \o history
        \o <<[role |-> "user", content |-> current_message]>>

\* ContextBuilder.add_assistant_message: tool_calls and reasoning_content only when truthy
add_assistant_message(msgs, content, tool_calls, reasoning_content) ==
    LET base == [role |-> "assistant", content |-> IF content \in {None, <<>>} THEN <<>> ELSE content]
        withCalls == IF tool_calls # <<>>
                     THEN [k \in DOMAIN base \cup {"tool_calls"} |->
                              IF k = "tool_calls" THEN tool_calls ELSE base[k]]
                     ELSE base
        withReason == IF reasoning_content \notin {None, <<>>}
                      THEN [k \in DOMAIN withCalls \cup {"reasoning_content"} |->
                               IF k = "reasoning_content" THEN reasoning_content ELSE withCalls[k]]
                      ELSE withCalls
    IN  Append(msgs, withReason)

\* _process_message: the tool_call_dicts of a response (arguments kept as the value
\* json.dumps serialises)
tool_call_dicts(response) ==
    [i \in 1..Len(response.tool_calls) |->
        [id |-> response.tool_calls[i].id, type |-> "function",
         function |-> [name |-> response.tool_calls[i].name,
                       arguments |-> response.tool_calls[i].arguments]]]

(***************************************************************************)
(* AgentLoop (agent/loop.py).  One action is one run of the task between   *)
(* two suspension points (wait_for, provider.chat, tools.execute).         *)
(***************************************************************************)
IsSystem(m) == m.channel = SYSTEM

\* The tools the loop has registered
LoopTools == register(register(EmptyRegistry, EchoTool), MessageTool)

\* while True: run() goes on whatever stop() has set
LoopTop_mut == "wait"

\* while self._running: where run() goes when it is back at the top of its loop
LoopTop == IF running THEN "wait" ELSE "exited"

\* run(): self.bus.publish_outbound by the loop itself, with the history of it:
\* the inbound, where the turn was (at), and final_content before its default (final)
Emit(kind, o, fc) ==
    /\ publish_outbound(o)
    /\ lastEmit' = <<[src |-> msg, kind |-> kind, out |-> o, at |-> pc, final |-> fc]>>
    /\ nEmit' = nEmit + 1

NoMessage == InboundMessage(<<>>, <<>>, <<>>, <<>>, {})
NoOrigin == [channel |-> <<>>, chat_id |-> <<>>]
NoOutbound == OutboundMessage(<<>>, <<>>, <<>>, {})

\* _process_message has returned or raised: its locals are gone
EndTurn ==
    /\ active' = active \ {msg.uid}
    /\ msg' = NoMessage
    /\ origin' = NoOrigin
    /\ iteration' = 0
    /\ nCalls' = 0
    /\ final_content' = None
    /\ histRead' = <<>>
    /\ messages' = <<>>
    /\ toolsLeft' = <<>>

\* run() without its inner except: the exception ends the task
OnException_mut(e) ==
    /\ pc' = "crashed"
    /\ EndTurn
    /\ UNCHANGED <<outbound, nOut, lastEmit, nEmit>>

\* run(): except Exception as e: the apology, then the next loop iteration
OnException(e) ==
    /\ Emit("apology", OutboundMessage(msg.channel, msg.chat_id,
                           <<"Sorry, I encountered an error: ", e>>, {}), None)
    /\ pc' = LoopTop
    /\ EndTurn

\* run(): response = await self._process_message(msg); if response: publish_outbound
PublishResponse(kind, response, fc) ==
    /\ Emit(kind, response, fc)
    /\ pc' = LoopTop
    /\ EndTurn

\* The loop guard with the comparison off by one
LoopGuard_mut(it) == it <= max_iterations

\* while iteration < self.max_iterations
LoopGuard(it) == it < max_iterations

\* SessionManager.save: the file of the session is rewritten with all its messages
save(files, ss, key) ==
    [k \in DOMAIN files \cup {key} |-> IF k = key THEN ss[key] ELSE files[k]]

\* final_content left as it is
DefaultContent_mut(fc, sys) == fc

\* if final_content is None: final_content = "..." (one string in _process_message,
\* another in _process_system_message)
DefaultContent(fc, sys) ==
    IF fc = None THEN (IF sys THEN BACKGROUND_DONE ELSE NO_RESPONSE) ELSE fc

\* The end of a turn: the default for a None final_content, the two session
\* messages, sessions.save (which may raise) and the returned OutboundMessage.
Finish(fc, saveOk) ==
    LET sys == IsSystem(msg)
        content == DefaultContent(fc, sys)
        key == session_key(origin.channel, origin.chat_id)
        user == IF sys THEN <<"[System: ">> \o msg.sender_id \o <<"] ">> \o msg.content
                ELSE msg.content
        ss == add_message(add_message(sessions, key, "user", user),
                          key, "assistant", content)
    IN  /\ sessions' = ss
        /\ disk' = IF saveOk THEN save(disk, ss, key) ELSE disk
        /\ IF ~saveOk THEN OnException("save failed")
           ELSE IF sys
           THEN PublishResponse("sysreply",
                    OutboundMessage(origin.channel, origin.chat_id, content, {}), fc)
           ELSE PublishResponse("reply",
                    OutboundMessage(msg.channel, msg.chat_id, content, msg.metadata), fc)

\* The head of the while loop: one more provider.chat call, or exhaustion
LoopHead(it, saveOk) ==
    IF LoopGuard(it)
    THEN /\ iteration' = it + 1
         /\ nCalls' = nCalls + 1
         /\ pc' = "chat"
         /\ UNCHANGED <<outbound, nOut, lastEmit, nEmit, active, sessions, disk,
                        final_content, histRead, messages, msg, origin, toolsLeft>>
    ELSE Finish(None, saveOk)

\* MessageTool.execute: channel or self._default_channel, chat_id likewise, then the
\* message handed to the send callback (bus.publish_outbound) and the returned string
MessageExecute(args) ==
    LET given(key) == IF key \in DictKeys(args) THEN DictGet(args, key).v ELSE <<>>
        channel == IF given("channel") # <<>> THEN given("channel") ELSE toolCtx.channel
        chat_id == IF given("chat_id") # <<>> THEN given("chat_id") ELSE toolCtx.chat_id
    IN  IF channel = <<>> \/ chat_id = <<>>
        THEN [result |-> Return(<<"Error: No target channel/chat specified">>), sent |-> <<>>]
        ELSE [result |-> Return(<<"Message sent to ">> \o session_key(channel, chat_id)),
              sent |-> <<OutboundMessage(channel, chat_id, given("content"), {})>>]

\* What tool.execute(**arguments) of a call of the loop does when it is reached
ToolBody(tc) ==
    IF tc.name = "message" THEN MessageExecute(tc.arguments.v)
    ELSE [result |-> Return(IF "text" \in DictKeys(tc.arguments.v)
                            THEN DictGet(tc.arguments.v, "text").v ELSE <<>>),
          sent |-> <<>>]

BusInit ==
    /\ inbound = <<>>
    /\ outbound = <<>>
    /\ nPub = 0
    /\ conLog = <<>>
    /\ nOut = 0
    /\ outConLog = <<>>

LoopInit ==
    /\ running = FALSE
    /\ pc = "new"
    /\ msg = NoMessage
    /\ iteration = 0
    /\ final_content = None
    /\ histRead = <<>>
    /\ messages = <<>>
    /\ toolsLeft = <<>>
    /\ origin = NoOrigin
    /\ toolCtx = NoOrigin
    /\ sessions = <<>>
    /\ disk = <<>>
    /\ nCalls = 0
    /\ active = {}
    /\ lastEmit = <<>>
    /\ nEmit = 0

RegInit ==
    /\ lastExec = <<>>
    /\ nExec = 0

AccInit == handled = <<>>

ValInit == validated = <<>>

DirInit ==
    /\ dpc = "idle"
    /\ dmsg = NoMessage
    /\ diteration = 0
    /\ dmessages = <<>>
    /\ dtoolsLeft = <<>>
    /\ dreturned = <<>>
    /\ nDirect = 0

SubInit == spawned = <<>>

QInit ==
    /\ subs = <<>>
    /\ busRunning = FALSE
    /\ qpc = "new"
    /\ qmsg = NoOutbound
    /\ qidx = 0
    /\ qcalls = <<>>
    /\ qraisedAt = 0

\* The dispatch task of a ChannelManager with the adapters chs
MInit(chs) ==
    /\ channels = chs
    /\ mpc = "new"
    /\ mmsg = NoOutbound
    /\ mlog = <<>>
    /\ cancelled = FALSE

\* No channel is configured
SInit ==
    /\ chanCfg = [c \in {} |-> 0]
    /\ spc = "new"
    /\ started = {}

\* stop_all was not called
StopInit ==
    /\ mstop = "idle"
    /\ stopLog = <<>>

\* No adapter was started
AInit(kind) ==
    /\ akind = kind
    /\ apc = "new"
    /\ arunning = FALSE
    /\ nAttempts = 0
    /\ lastGap = "none"

\* No session file is looked at
NoPersist == [st |-> "none"]

\* No get_history call is looked at
NoHist == [called |-> FALSE, messages |-> <<>>, limit |-> 0, result |-> <<>>]

\* No register or unregister call was made
NoCall == [op |-> "none"]

\* No heartbeat service exists
NoHeartbeat == [pc |-> "none"]

\* No cron tool, session store, Mochat adapter or typing adapter exists
NoCron == [st |-> "none"]
NoStore == [st |-> "none"]
NoMochat == [st |-> "none"]
NoTyping == [st |-> "none"]

LateInit ==
    /\ cron = NoCron
    /\ store = NoStore
    /\ mochat = NoMochat
    /\ typing = NoTyping

TailInit ==
    /\ AInit("none")
    /\ persist = NoPersist
    /\ hist = NoHist
    /\ lastCall = NoCall
    /\ hb = NoHeartbeat
    /\ LateInit

Ext2Init == SInit /\ StopInit /\ TailInit

ExtInit == ValInit /\ DirInit /\ SubInit /\ QInit /\ MInit({}) /\ Ext2Init

\* The agent loop constructed with its tools, before run() is started
Init ==
    /\ BusInit
    /\ LoopInit
    /\ RegInit
    /\ tools = LoopTools
    /\ AccInit
    /\ ExtInit
    /\ allow_from = {}

\* A producer (an adapter's _handle_message, the sub-agent manager, cron,
\* heartbeat) completes a publish_inbound call
PublishInbound ==
    /\ nPub < MaxMsgs
    /\ \E m \in InboundInputs : publish_inbound(m)
    /\ UNCHANGED <<outbound, conLog, nOut, outConLog, loopVars, regVars, accVars, extVars>>

\* AgentLoop.run is started: self._running = True, then the first wait_for
Run ==
    /\ pc = "new"
    /\ running' = TRUE
    /\ pc' = "wait"
    /\ UNCHANGED <<busVars, msg, iteration, final_content, histRead, messages, toolsLeft, origin,
                   toolCtx, sessions, disk, nCalls, active, lastEmit, nEmit, regVars, accVars, extVars>>

\* AgentLoop.stop
Stop ==
    /\ running' = FALSE
    /\ UNCHANGED <<busVars, pc, msg, iteration, final_content, histRead, messages, toolsLeft, origin,
                   toolCtx, sessions, disk, nCalls, active, lastEmit, nEmit, regVars, accVars, extVars>>

\* run(): wait_for times out (asyncio.TimeoutError) and the loop continues.  The
\* cancelled queue.get() takes nothing: an item put meanwhile stays queued.
PollTimeout ==
    /\ pc = "wait"
    /\ pc' = LoopTop
    /\ UNCHANGED <<busVars, running, msg, iteration, final_content, histRead, messages, toolsLeft,
                   origin, toolCtx, sessions, disk, nCalls, active, lastEmit, nEmit,
                   regVars, accVars, extVars>>

\* The start of _process_message / _process_system_message up to the first
\* provider.chat: the origin, get_or_create, set_context on the tools, build_messages.
TurnSetup(m) ==
    LET o == IF IsSystem(m) THEN ParseOrigin(m.chat_id)
             ELSE [channel |-> m.channel, chat_id |-> m.chat_id]
        key == session_key(o.channel, o.chat_id)
        ss == get_or_create(sessions, key)
    IN  /\ origin' = o
        /\ toolCtx' = o
        /\ sessions' = ss
        /\ disk' = disk
        /\ histRead' = get_history(ss[key], DefaultMaxMessages)
        /\ messages' = build_messages(get_history(ss[key], DefaultMaxMessages),
                                      m.content, o.channel, o.chat_id)
        /\ iteration' = IF LoopGuard(0) THEN 1 ELSE 0
        /\ nCalls' = IF LoopGuard(0) THEN 1 ELSE 0
        /\ final_content' = None
        /\ toolsLeft' = <<>>
        /\ pc' = IF LoopGuard(0) THEN "chat" ELSE "tools"

\* run() taking the next inbound without awaiting the turn in progress
CanConsume_mut == pc \in {"wait", "chat", "tools"}

\* run() awaits _process_message before its next wait_for: it takes the next
\* inbound only while suspended in wait_for
CanConsume == pc = "wait"

\* run(): wait_for returns the next inbound message and its turn starts
ConsumeInbound ==
    /\ CanConsume
    /\ consume_inbound
    /\ msg' = QueueGet(inbound).item
    /\ active' = active \cup {QueueGet(inbound).item.uid}
    /\ nEmit' = 0
    /\ TurnSetup(QueueGet(inbound).item)
    /\ UNCHANGED <<outbound, nPub, nOut, outConLog, running, lastEmit, regVars, accVars, extVars>>

\* What the while loop does with the response of provider.chat: the tool calls are
\* to be executed, or final_content = response.content and break
OnResponse(response, saveOk) ==
    IF has_tool_calls(response)
    THEN /\ saveOk
         /\ messages' = add_assistant_message(messages, response.content,
                            tool_call_dicts(response), response.reasoning_content)
         /\ toolsLeft' = response.tool_calls
         /\ pc' = "tools"
         /\ UNCHANGED <<outbound, nOut, lastEmit, nEmit, active, sessions, disk,
                        final_content, histRead, msg, iteration, origin, nCalls>>
    ELSE Finish(response.content, saveOk)

\* provider.chat returns a response
ProviderReturns ==
    /\ pc = "chat"
    /\ \E response \in ProviderResponses, saveOk \in BOOLEAN : OnResponse(response, saveOk)
    /\ UNCHANGED <<inbound, nPub, conLog, outConLog, running, toolCtx, regVars, accVars, extVars>>

\* provider.chat raises: the exception leaves _process_message
ProviderRaises ==
    /\ pc = "chat"
    /\ OnException("provider failed")
    /\ UNCHANGED <<inbound, nPub, conLog, outConLog, running, toolCtx, sessions, disk,
                   regVars, accVars, extVars>>

\* self.tools.execute of the next tool call returns and its result is appended to
\* messages; the message tool has published its own outbound message
ExecuteTool ==
    /\ pc = "tools"
    /\ toolsLeft # <<>>
    /\ LET tc == Head(toolsLeft)
           body == ToolBody(tc)
           r == ToolStep(tools, messages, tc, body.result)
       IN  /\ messages' = r.messages
           /\ IF r.ran /\ body.sent # <<>>
              THEN publish_outbound(body.sent[1])
              ELSE UNCHANGED <<outbound, nOut>>
    /\ toolsLeft' = Tail(toolsLeft)
    /\ UNCHANGED <<inbound, nPub, conLog, outConLog, running, pc, msg, iteration,
                   final_content, histRead, origin, toolCtx, sessions, disk, nCalls, active, lastEmit,
                   nEmit, regVars, accVars, extVars>>

\* All tool calls of the response are done: the while loop goes round
NextIteration ==
    /\ pc = "tools"
    /\ toolsLeft = <<>>
    /\ \E saveOk \in BOOLEAN : LoopHead(iteration, saveOk)
    /\ UNCHANGED <<inbound, nPub, conLog, outConLog, running, toolCtx, regVars, accVars, extVars>>

Next ==
    \/ PublishInbound
    \/ Run
    \/ Stop
    \/ PollTimeout
    \/ ConsumeInbound
    \/ ProviderRaises
    \/ ProviderReturns
    \/ ExecuteTool
    \/ NextIteration

Spec == Init /\ [][Next]_vars

(***************************************************************************)
(* The agent loop under fair scheduling, with a provider that answers      *)
(* without tool calls.  The event loop runs a task that is ready: run()    *)
(* once started, the wait_for that has a message to return, and the        *)
(* provider call, which returns or raises.                                 *)
(***************************************************************************)
\* provider.chat returns a response without tool calls
ProviderAnswers == ProviderReturns /\ pc' # "tools"

LiveNext ==
    \/ PublishInbound
    \/ Run
    \/ Stop
    \/ PollTimeout
    \/ ConsumeInbound
    \/ ProviderRaises
    \/ ProviderAnswers

LiveSpec ==
    /\ Init
    /\ [][LiveNext]_vars
    /\ WF_vars(Run)
    /\ WF_vars(ConsumeInbound)
    /\ WF_vars(ProviderRaises \/ ProviderAnswers)

(***************************************************************************)
(* The bus alone: producers and consumers of both queues, interleaved in   *)
(* any order.                                                              *)
(***************************************************************************)
\* A task (the agent loop, the message tool, the sub-agent manager) completes a
\* publish_outbound call
PublishOutbound ==
    /\ nOut < MaxOut
    /\ \E o \in OutboundInputs : publish_outbound(o)
    /\ UNCHANGED <<inbound, nPub, conLog, outConLog, loopVars, regVars, accVars, extVars>>

\* A consume_inbound call returns
BusConsumeInbound ==
    /\ consume_inbound
    /\ UNCHANGED <<outbound, nPub, nOut, outConLog, loopVars, regVars, accVars, extVars>>

\* ChannelManager._dispatch_outbound: a consume_outbound call returns
ConsumeOutbound ==
    /\ consume_outbound
    /\ UNCHANGED <<inbound, nPub, conLog, nOut, loopVars, regVars, accVars, extVars>>

BusNext ==
    \/ PublishInbound
    \/ PublishOutbound
    \/ BusConsumeInbound
    \/ ConsumeOutbound

SpecBus == Init /\ [][BusNext]_vars

(***************************************************************************)
(* BaseChannel (channels/base.py): the access check of an adapter.         *)
(* allow_from is the set of its entries.                                   *)
(***************************************************************************)
\* The component test without the check that the component is not empty
PartAllowed_mut(allow_list, part) == part \in allow_list

\* is_allowed: if part and part in allow_list
PartAllowed(allow_list, part) == part # <<>> /\ part \in allow_list

\* BaseChannel.is_allowed
is_allowed(allow_list, sender_id) ==
    IF allow_list = {} THEN TRUE
    ELSE IF sender_id \in allow_list THEN TRUE
    ELSE IF "|" \in Range(sender_id)
    THEN LET parts == Split(sender_id, "|")
         IN  \E i \in 1..Len(parts) : PartAllowed(allow_list, parts[i])
    ELSE FALSE

\* The allow_from lists a configuration may hold: entries "", "a", "a|b"
AllowEntries == {<<>>, <<"a">>, <<"a", "|", "b">>}

\* The sender ids an adapter may see: every string of up to two characters over
\* a, b, | and the compound ids of two one-character parts
SenderChars == {"a", "b", "|"}
Senders ==
    {<<>>} \cup {<<x>> : x \in SenderChars}
           \cup {<<x, y>> : x \in SenderChars, y \in SenderChars}
           \cup {<<x, "|", y>> : x \in {"a", "b"}, y \in {"a", "b"}}

\* BaseChannel._handle_message for the channel named "x"
HandleMessage ==
    /\ Len(handled) < MaxHandled
    /\ \E sender_id \in Senders :
         /\ handled' = Append(handled, sender_id)
         /\ IF ~is_allowed(allow_from, sender_id)
            THEN UNCHANGED <<inbound, nPub>>
            ELSE publish_inbound(InboundMessage(<<"x">>, sender_id, <<"c">>, <<"hello">>, {}))
    /\ UNCHANGED <<outbound, conLog, nOut, outConLog, loopVars, regVars, allow_from, extVars>>

AccessInit ==
    /\ BusInit
    /\ LoopInit
    /\ RegInit
    /\ tools = LoopTools
    /\ AccInit
    /\ ExtInit
    /\ allow_from \in SUBSET AllowEntries

AccessNext == HandleMessage

SpecAccess == AccessInit /\ [][AccessNext]_vars

(***************************************************************************)
(* The registry alone: tools registered and removed, and execute called    *)
(* with any name, any params and any behaviour of the tool body, each      *)
(* result appended to the messages of a turn as the loop does.             *)
(***************************************************************************)
\* The arguments a tool call may carry
ParamInputs ==
    { JDict(<<>>),
      JDict(<<Item("text", JStr(<<"p">>))>>),
      JDict(<<Item("text", JInt(1))>>),
      JDict(<<Item("text", JStr(<<>>))>>),
      JDict(<<Item("n", JBool(TRUE))>>),
      JDict(<<Item("n", JInt(5)), Item("mode", JStr(<<"z">>)),
              Item("tags", JList(<<JStr(<<"t">>), JInt(1)>>))>>),
      JList(<<>>) }

\* What the body of a tool may do: return a string or raise an exception
BodyOutcomes == {Return(<<"done">>), Raise(<<"boom">>)}

\* ToolRegistry.register is called
Register ==
    /\ \E tool \in ToolInputs : tools' = register(tools, tool)
    /\ UNCHANGED <<busVars, loopVars, lastExec, nExec, accVars, extVars>>

\* ToolRegistry.unregister is called
Unregister ==
    /\ \E name \in ToolNames : tools' = unregister(tools, name)
    /\ UNCHANGED <<busVars, loopVars, lastExec, nExec, accVars, extVars>>

\* _process_message: one tool call of a response is executed and its result added
ExecuteCall ==
    /\ nExec < MaxExec
    /\ \E name \in ToolNames, params \in ParamInputs, body \in BodyOutcomes :
         LET tc == ToolCallRequest("t1", name, params)
             r == ToolStep(tools, messages, tc, body)
         IN  /\ lastExec' = <<[call |-> tc, body |-> body,
                               tool |-> IF has(tools, name) THEN <<tools[name]>> ELSE <<>>,
                               exc |-> r.exc, value |-> r.value, ran |-> r.ran]>>
             /\ messages' = r.messages
    /\ nExec' = nExec + 1
    /\ UNCHANGED <<busVars, running, pc, msg, iteration, final_content, histRead, toolsLeft, origin,
                   toolCtx, sessions, disk, nCalls, active, lastEmit, nEmit, tools, accVars, extVars>>

RegistryInit ==
    /\ BusInit
    /\ LoopInit
    /\ RegInit
    /\ tools = EmptyRegistry
    /\ AccInit
    /\ ExtInit
    /\ allow_from = {}

RegistryNext ==
    \/ Register
    \/ Unregister
    \/ ExecuteCall

SpecRegistry == RegistryInit /\ [][RegistryNext]_vars

(***************************************************************************)
(* Tool.validate_params alone: one tool with one parameter p, declared     *)
(* with each kind of constraint, and called with every value of the kinds  *)
(* JSON has.                                                               *)
(***************************************************************************)
\* The schemas the parameter p is declared with
PropSchemas ==
    { [type |-> "string", minLength |-> 1, maxLength |-> 2],
      [type |-> "string", enum |-> <<JStr(<<"a">>), JStr(<<"b">>)>>],
      [type |-> "integer", minimum |-> 1, maximum |-> 3],
      [type |-> "number", minimum |-> 0],
      [type |-> "boolean"],
      [type |-> "array", items |-> [type |-> "integer"]],
      [type |-> "object", properties |-> [k |-> StringSchema], required |-> <<"k">>] }

\* The values p is given
ValueInputs ==
    { JStr(<<>>), JStr(<<"a">>), JStr(<<"a", "b", "c">>),
      JInt(0), JInt(2), JInt(5), JBool(TRUE),
      JList(<<>>), JList(<<JInt(1), JInt(2)>>), JList(<<JInt(1), JStr(<<"a">>)>>),
      JDict(<<>>), JDict(<<Item("k", JStr(<<"a">>))>>), JDict(<<Item("k", JInt(1))>>) }

\* The tools validated: p declared with a schema, required or not
ValidateTools ==
    { Tool("t", [type |-> "object", properties |-> [p |-> ps], required |-> req]) :
        ps \in PropSchemas, req \in {<<>>, <<"p">>} }

\* The parameter objects: without p, or with p and one more key
ValidateParams ==
    {JDict(<<>>)} \cup {JDict(<<Item("p", val), Item("other", JInt(1))>>) : val \in ValueInputs}

\* tool.validate_params(params) is called
Validate ==
    /\ \E tool \in ValidateTools, params \in ValidateParams :
         validated' = <<[tool |-> tool, params |-> params,
                         result |-> validate_params(tool, params)]>>
    /\ UNCHANGED <<busVars, loopVars, regVars, accVars, extButVal>>

ValidateNext == Validate

SpecValidate == Init /\ [][ValidateNext]_vars

(***************************************************************************)
(* AgentLoop.process_direct called by another task (the CLI, a cron or     *)
(* heartbeat callback) while run() is consuming the bus.  The call runs    *)
(* _process_message with locals of its own on the loop's tools, sessions   *)
(* and provider.                                                           *)
(***************************************************************************)
\* What the callers pass: content, channel and chat_id (the defaults among them)
DirectInputs ==
    { [content |-> <<"tick">>, channel |-> <<"cli">>, chat_id |-> <<"direct">>],
      [content |-> <<"tick">>, channel |-> <<"x">>, chat_id |-> <<"c">>] }

\* The inbound messages of adapters while process_direct is in use
DirectInbound == { m \in InboundInputs : ~IsSystem(m) }

runLocals == <<running, pc, msg, iteration, final_content, histRead, messages, toolsLeft, origin,
               nCalls, active, lastEmit, nEmit>>

\* process_direct returns or raises: the locals of its _process_message are gone
DirectEnd(outcome) ==
    /\ dreturned' = <<outcome>>
    /\ dpc' = "idle"
    /\ dmsg' = NoMessage
    /\ diteration' = 0
    /\ dmessages' = <<>>
    /\ dtoolsLeft' = <<>>

\* _process_message from final_content on, then return response.content
DirectFinish(fc, saveOk) ==
    LET content == DefaultContent(fc, FALSE)
        key == session_key(dmsg.channel, dmsg.chat_id)
        ss == add_message(add_message(sessions, key, "user", dmsg.content),
                          key, "assistant", content)
    IN  /\ sessions' = ss
        /\ disk' = IF saveOk THEN save(disk, ss, key) ELSE disk
        /\ DirectEnd(IF saveOk THEN Return(content) ELSE Raise("save failed"))

\* process_direct is called: the InboundMessage, then _process_message up to its
\* first provider.chat (get_or_create, set_context on the tools, build_messages)
DirectStart ==
    /\ dpc = "idle"
    /\ nDirect < MaxDirect
    /\ \E d \in DirectInputs :
         LET m == InboundMessage(d.channel, <<"user">>, d.chat_id, d.content, {})
             key == session_key(m.channel, m.chat_id)
             ss == get_or_create(sessions, key)
         IN  /\ dmsg' = m
             /\ sessions' = ss
             /\ toolCtx' = [channel |-> m.channel, chat_id |-> m.chat_id]
             /\ dmessages' = build_messages(get_history(ss[key], DefaultMaxMessages),
                                            m.content, m.channel, m.chat_id)
    /\ diteration' = IF LoopGuard(0) THEN 1 ELSE 0
    /\ dpc' = IF LoopGuard(0) THEN "chat" ELSE "tools"
    /\ nDirect' = nDirect + 1
    /\ UNCHANGED <<busVars, runLocals, disk, dtoolsLeft, dreturned, regVars, accVars, extButDir>>

\* provider.chat of the direct turn returns a response
DirectProviderReturns ==
    /\ dpc = "chat"
    /\ \E response \in ProviderResponses, saveOk \in BOOLEAN :
         IF has_tool_calls(response)
         THEN /\ saveOk
              /\ dmessages' = add_assistant_message(dmessages, response.content,
                                  tool_call_dicts(response), response.reasoning_content)
              /\ dtoolsLeft' = response.tool_calls
              /\ dpc' = "tools"
              /\ UNCHANGED <<sessions, disk, dmsg, diteration, dreturned>>
         ELSE DirectFinish(response.content, saveOk)
    /\ UNCHANGED <<busVars, runLocals, toolCtx, nDirect, regVars, accVars, extButDir>>

\* provider.chat of the direct turn raises: process_direct raises to its caller
DirectProviderRaises ==
    /\ dpc = "chat"
    /\ DirectEnd(Raise("provider failed"))
    /\ UNCHANGED <<busVars, runLocals, toolCtx, sessions, disk, nDirect, regVars, accVars, extButDir>>

\* self.tools.execute of the next tool call of the direct turn
DirectExecuteTool ==
    /\ dpc = "tools"
    /\ dtoolsLeft # <<>>
    /\ LET tc == Head(dtoolsLeft)
           body == ToolBody(tc)
           r == ToolStep(tools, dmessages, tc, body.result)
       IN  /\ dmessages' = r.messages
           /\ IF r.ran /\ body.sent # <<>>
              THEN publish_outbound(body.sent[1])
              ELSE UNCHANGED <<outbound, nOut>>
    /\ dtoolsLeft' = Tail(dtoolsLeft)
    /\ UNCHANGED <<inbound, nPub, conLog, outConLog, runLocals, toolCtx, sessions, disk,
                   dpc, dmsg, diteration, dreturned, nDirect, regVars, accVars, extButDir>>

\* All tool calls of the response are done: the while loop of the direct turn goes round
DirectNextIteration ==
    /\ dpc = "tools"
    /\ dtoolsLeft = <<>>
    /\ \E saveOk \in BOOLEAN :
         IF LoopGuard(diteration)
         THEN /\ saveOk
              /\ diteration' = diteration + 1
              /\ dpc' = "chat"
              /\ UNCHANGED <<sessions, disk, dmsg, dmessages, dtoolsLeft, dreturned>>
         ELSE DirectFinish(None, saveOk)
    /\ UNCHANGED <<busVars, runLocals, toolCtx, nDirect, regVars, accVars, extButDir>>

\* An adapter publishes a user's message
DirectPublishInbound ==
    /\ nPub < MaxTurns
    /\ \E m \in DirectInbound : publish_inbound(m)
    /\ UNCHANGED <<outbound, conLog, nOut, outConLog, loopVars, regVars, accVars, extVars>>

DirectNext ==
    \/ DirectPublishInbound
    \/ Run
    \/ ConsumeInbound
    \/ ProviderReturns
    \/ ProviderRaises
    \/ ExecuteTool
    \/ NextIteration
    \/ DirectStart
    \/ DirectProviderReturns
    \/ DirectProviderRaises
    \/ DirectExecuteTool
    \/ DirectNextIteration

SpecDirect == Init /\ [][DirectNext]_vars
(***************************************************************************)
(* TelegramChannel._on_reset (channels/telegram.py): the /reset command,   *)
(* handled by the adapter's task on the SessionManager the ChannelManager  *)
(* hands to it, the one of the agent loop.                                 *)
(***************************************************************************)
TELEGRAM == <<"telegram">>

\* The chats of the adapter
TelegramChats == {<<"7">>}

\* What the adapter publishes for a text message of a chat
TelegramInbound ==
    { InboundMessage(TELEGRAM, <<"u">>, c, <<"hello">>, {}) : c \in TelegramChats }

\* Session.clear on the cached session of key
clear(ss, key) == [ss EXCEPT ![key] = <<>>]

\* _on_reset: get_or_create, session.clear(), session_manager.save(session)
OnReset ==
    /\ \E c \in TelegramChats :
         LET key == session_key(TELEGRAM, c)
             ss == clear(get_or_create(sessions, key), key)
         IN  /\ sessions' = ss
             /\ disk' = save(disk, ss, key)
    /\ UNCHANGED <<busVars, running, pc, msg, iteration, final_content, histRead, messages,
                   toolsLeft, origin, toolCtx, nCalls, active, lastEmit, nEmit,
                   regVars, accVars, extVars>>

\* The adapter publishes a text message of the chat
ResetPublishInbound ==
    /\ nPub < MaxResetTurns
    /\ \E m \in TelegramInbound : publish_inbound(m)
    /\ UNCHANGED <<outbound, conLog, nOut, outConLog, loopVars, regVars, accVars, extVars>>

ResetNext ==
    \/ ResetPublishInbound
    \/ Run
    \/ ConsumeInbound
    \/ ProviderReturns
    \/ ProviderRaises
    \/ ExecuteTool
    \/ NextIteration
    \/ OnReset

SpecReset == Init /\ [][ResetNext]_vars
(***************************************************************************)
(* Sub-agent completion (agent/subagent.py, SubagentManager): the result   *)
(* of a sub-agent spawned with the origin SpawnTool.execute passes on is   *)
(* announced as an inbound message on channel "system".                    *)
(***************************************************************************)
\* The names of the adapters an origin channel can be
OriginChannels == {<<"x">>, <<"telegram">>}

\* The chat ids an origin can have: up to MaxLen tokens, ":" among them
RECURSIVE Strings(_, _)
Strings(alphabet, n) ==
    IF n = 0 THEN {<<>>}
    ELSE Strings(alphabet, n - 1) \cup
         {Append(s, c) : s \in {t \in Strings(alphabet, n - 1) : Len(t) = n - 1},
                         c \in alphabet}

OriginChatIds == Strings({"c", ":"}, MaxLen)

\* SpawnTool.execute: the origin handed to SubagentManager.spawn is the tool's context
SpawnOrigins == { [channel |-> ch, chat_id |-> c] : ch \in OriginChannels, c \in OriginChatIds }

\* The announcement: channel "system", chat_id f"{origin_channel}:{origin_chat_id}"
Announcement(o, result) ==
    InboundMessage(SYSTEM, <<"subagent">>, o.channel \o COLON \o o.chat_id, result, {})

\* A sub-agent has finished and its result is published on the bus
AnnounceResult ==
    /\ nPub < MaxSpawn
    /\ \E o \in SpawnOrigins :
         /\ publish_inbound(Announcement(o, <<"result">>))
         /\ spawned' = Append(spawned, o)
    /\ UNCHANGED <<outbound, conLog, nOut, outConLog, loopVars, regVars, accVars, extButSub>>

RouteNext ==
    \/ AnnounceResult
    \/ Run
    \/ ConsumeInbound
    \/ ProviderReturns
    \/ ProviderRaises
    \/ ExecuteTool
    \/ NextIteration

SpecRoute == Init /\ [][RouteNext]_vars
(***************************************************************************)
(* MessageBus.subscribe_outbound, dispatch_outbound and stop (bus/queue.py)*)
(***************************************************************************)
\* The channels callbacks subscribe to
SubChannels == {<<"x">>, <<"y">>}

\* subscribe_outbound: the callback appended to the list of the channel
subscribe_outbound(s, channel, callback) ==
    [k \in DOMAIN s \cup {channel} |->
        IF k = channel
        THEN (IF channel \in DOMAIN s THEN Append(s[channel], callback) ELSE <<callback>>)
        ELSE s[k]]

\* How many callbacks are subscribed
RECURSIVE SubCount(_, _)
SubCount(s, chs) ==
    IF chs = {} THEN 0
    ELSE LET ch == CHOOSE c \in chs : TRUE
         IN  Len(s[ch]) + SubCount(s, chs \ {ch})

\* A task subscribes a callback; callbacks are named by the order of subscription
Subscribe ==
    /\ SubCount(subs, DOMAIN subs) < MaxSubs
    /\ \E ch \in SubChannels :
         subs' = subscribe_outbound(subs, ch, SubCount(subs, DOMAIN subs) + 1)
    /\ UNCHANGED <<busVars, loopVars, regVars, accVars, extButQ,
                   busRunning, qpc, qmsg, qidx, qcalls, qraisedAt>>

\* while self._running: where dispatch_outbound goes at the top of its loop
QueueTop == IF busRunning THEN "wait" ELSE "exited"

\* for callback in subscribers: the next callback is called, or the loop is over.
\* The list is the one registered for the channel: a callback appended while an
\* earlier one is awaited is reached too.
NextCallback(m, idx, log) ==
    IF idx < Len(subs[m.channel])
    THEN /\ qpc' = "calling"
         /\ qmsg' = m
         /\ qidx' = idx + 1
         /\ qcalls' = Append(log, [uid |-> m.uid, cb |-> subs[m.channel][idx + 1],
                                   raised |-> FALSE])
    ELSE /\ qpc' = QueueTop
         /\ qmsg' = NoOutbound
         /\ qidx' = 0
         /\ qcalls' = log

\* dispatch_outbound is started: self._running = True, then the first wait_for
DispatchStart ==
    /\ qpc = "new"
    /\ busRunning' = TRUE
    /\ qpc' = "wait"
    /\ UNCHANGED <<busVars, loopVars, regVars, accVars, extButQ,
                   subs, qmsg, qidx, qcalls, qraisedAt>>

\* wait_for(self.outbound.get()) returns a message; a channel without subscribers
\* has the empty default list
DispatchGet ==
    /\ qpc = "wait"
    /\ outbound # <<>>
    /\ outbound' = QueueGet(outbound).rest
    /\ LET m == QueueGet(outbound).item IN
       IF m.channel \in DOMAIN subs
       THEN NextCallback(m, 0, <<>>)
       ELSE /\ qpc' = QueueTop
            /\ qmsg' = NoOutbound
            /\ qidx' = 0
            /\ qcalls' = <<>>
    /\ UNCHANGED <<inbound, nPub, conLog, nOut, outConLog, loopVars, regVars, accVars,
                   extButQ, subs, busRunning, qraisedAt>>

\* wait_for times out: except asyncio.TimeoutError: continue
DispatchTimeout ==
    /\ qpc = "wait"
    /\ qpc' = QueueTop
    /\ UNCHANGED <<busVars, loopVars, regVars, accVars, extButQ,
                   subs, busRunning, qmsg, qidx, qcalls, qraisedAt>>

\* The call of a callback without the inner try: its exception leaves the for loop
CallbackOutcome_mut(raised) == IF raised THEN "propagate" ELSE "continue"

\* try: await callback(msg) / except Exception: logger.error(...)
CallbackOutcome(raised) == "continue"

\* The awaited callback returns or raises an Exception
CallbackDone ==
    /\ qpc = "calling"
    /\ \E raised \in BOOLEAN :
         LET log == [qcalls EXCEPT ![Len(qcalls)].raised = raised] IN
         /\ qraisedAt' = IF raised /\ qraisedAt = 0 THEN qmsg.uid ELSE qraisedAt
         /\ IF CallbackOutcome(raised) = "propagate"
            THEN /\ qpc' = "crashed"
                 /\ qcalls' = log
                 /\ UNCHANGED <<qmsg, qidx>>
            ELSE NextCallback(qmsg, qidx, log)
    /\ UNCHANGED <<busVars, loopVars, regVars, accVars, extButQ, subs, busRunning>>

\* MessageBus.stop
BusStop ==
    /\ busRunning' = FALSE
    /\ UNCHANGED <<busVars, loopVars, regVars, accVars, extButQ,
                   subs, qpc, qmsg, qidx, qcalls, qraisedAt>>

DispatchNext ==
    \/ PublishOutbound
    \/ Subscribe
    \/ DispatchStart
    \/ DispatchGet
    \/ DispatchTimeout
    \/ CallbackDone
    \/ BusStop

SpecDispatch == Init /\ [][DispatchNext]_vars
(***************************************************************************)
(* ChannelManager.__init__ (_init_channels), _start_channel and start_all  *)
(* (channels/manager.py)                                                   *)
(***************************************************************************)
\* The channels _init_channels looks at, in its order
ChannelOrder == << <<"x">>, <<"y">>, <<"z">> >>

\* What can go wrong for a channel: its module or a dependency is missing
\* (ImportError), its constructor raises another exception (OSError of
\* get_data_path's mkdir in MochatChannel.__init__), its start() raises
Faults == {"none", "import", "construct", "start"}

ChannelConfigs ==
    [Range(ChannelOrder) -> [enabled : BOOLEAN, fault : Faults]]

\* _init_channels from the i-th channel on: if enabled: try: import and construct /
\* except ImportError: warning.  Another exception leaves _init_channels.
RECURSIVE _init_channels(_, _, _)
_init_channels(cfg, i, built) ==
    IF i > Len(ChannelOrder) THEN [channels |-> built, exc |-> FALSE]
    ELSE LET c == ChannelOrder[i] IN
         IF ~cfg[c].enabled \/ cfg[c].fault = "import"
         THEN _init_channels(cfg, i + 1, built)
         ELSE IF cfg[c].fault = "construct"
         THEN [channels |-> built, exc |-> TRUE]
         ELSE _init_channels(cfg, i + 1, built \cup {c})

\* ChannelManager(config, bus): __init__ runs _init_channels
Construct ==
    /\ spc = "new"
    /\ LET r == _init_channels(chanCfg, 1, {}) IN
       /\ channels' = r.channels
       /\ spc' = IF r.exc THEN "failed" ELSE "constructed"
    /\ UNCHANGED <<busVars, loopVars, regVars, accVars, coreVars, tailVars,
                   mpc, mmsg, mlog, cancelled, chanCfg, started, stopVars>>

\* start_all: if not self.channels: return; else the dispatch task and one
\* _start_channel task for every adapter are created and gathered
StartAll ==
    /\ spc = "constructed"
    /\ IF channels = {}
       THEN /\ spc' = "done"
            /\ mpc' = mpc
       ELSE /\ spc' = "starting"
            /\ mpc' = "wait"
    /\ UNCHANGED <<busVars, loopVars, regVars, accVars, coreVars, tailVars,
                   channels, mmsg, mlog, cancelled, chanCfg, started, stopVars>>

\* _start_channel(name, channel): try: await channel.start() / except Exception:
\* logger.error(...).  The tasks run in any order.
StartChannel ==
    /\ spc = "starting"
    /\ \E c \in channels \ started : started' = started \cup {c}
    /\ UNCHANGED <<busVars, loopVars, regVars, accVars, coreVars, tailVars, mVars, chanCfg, spc, stopVars>>

\* Every start() was called: from here on start_all only waits for the tasks
StartAllGathers ==
    /\ spc = "starting"
    /\ started = channels
    /\ spc' = "done"
    /\ UNCHANGED <<busVars, loopVars, regVars, accVars, coreVars, tailVars, mVars, chanCfg, started, stopVars>>

StartupInit ==
    /\ BusInit
    /\ LoopInit
    /\ RegInit
    /\ tools = LoopTools
    /\ AccInit
    /\ allow_from = {}
    /\ ValInit
    /\ DirInit
    /\ SubInit
    /\ QInit
    /\ MInit({})
    /\ chanCfg \in ChannelConfigs
    /\ spc = "new"
    /\ started = {}
    /\ StopInit
    /\ TailInit

StartupNext ==
    \/ Construct
    \/ StartAll
    \/ StartChannel
    \/ StartAllGathers

SpecStartup == StartupInit /\ [][StartupNext]_vars
(***************************************************************************)
(* ChannelManager._dispatch_outbound and stop_all (channels/manager.py).   *)
(* start_all creates the dispatch task only when an adapter is enabled.    *)
(***************************************************************************)
\* The adapters a configuration can enable (outbound messages go to x and to y)
AdapterSets == {{<<"x">>}, {<<"y">>}, {<<"x">>, <<"y">>}}

ManagerInit ==
    /\ BusInit
    /\ LoopInit
    /\ RegInit
    /\ tools = LoopTools
    /\ AccInit
    /\ allow_from = {}
    /\ ValInit
    /\ DirInit
    /\ SubInit
    /\ QInit
    /\ Ext2Init
    /\ \E chs \in AdapterSets : MInit(chs)

\* start_all: asyncio.create_task(self._dispatch_outbound()); the task reaches wait_for
ManagerStart ==
    /\ mpc = "new"
    /\ mpc' = "wait"
    /\ UNCHANGED <<busVars, loopVars, regVars, accVars, extButM,
                   channels, mmsg, mlog, cancelled>>

\* wait_for(self.bus.consume_outbound()) returns a message: channels.get(msg.channel),
\* then channel.send(msg) is called, or the warning for an unknown channel
ManagerConsume ==
    /\ mpc = "wait"
    /\ ~cancelled
    /\ consume_outbound
    /\ LET m == QueueGet(outbound).item IN
       IF m.channel \in channels
       THEN /\ mpc' = "sending"
            /\ mmsg' = m
            /\ mlog' = Append(mlog, [msg |-> m,
                                     sends |-> <<[adapter |-> m.channel,
                                                  outcome |-> "pending"]>>])
       ELSE /\ mpc' = "wait"
            /\ mmsg' = NoOutbound
            /\ mlog' = Append(mlog, [msg |-> m, sends |-> <<>>])
    /\ UNCHANGED <<inbound, nPub, conLog, nOut, loopVars, regVars, accVars, extButM,
                   channels, cancelled>>

\* wait_for times out: except asyncio.TimeoutError: continue
ManagerTimeout ==
    /\ mpc = "wait"
    /\ ~cancelled
    /\ UNCHANGED vars

\* channel.send awaited without the inner try: its exception leaves the while loop
SendOutcome_mut(raised) == IF raised THEN "propagate" ELSE "continue"

\* try: await channel.send(msg) / except Exception: logger.error(...)
SendOutcome(raised) == "continue"

\* The awaited send returns or raises an Exception
SendDone ==
    /\ mpc = "sending"
    /\ ~cancelled
    /\ \E raised \in BOOLEAN :
         /\ mlog' = [mlog EXCEPT ![Len(mlog)].sends[1].outcome =
                                    IF raised THEN "raised" ELSE "returned"]
         /\ mpc' = IF SendOutcome(raised) = "propagate" THEN "crashed" ELSE "wait"
    /\ mmsg' = NoOutbound
    /\ UNCHANGED <<busVars, loopVars, regVars, accVars, extButM, channels, cancelled>>

\* stop_all after start_all: self._dispatch_task.cancel(), which cancels the future
\* the task is suspended on; stop_all then awaits the task
StopAll ==
    /\ mpc \in {"wait", "sending"}
    /\ mstop = "idle"
    /\ cancelled' = TRUE
    /\ mstop' = "awaiting"
    /\ UNCHANGED <<busVars, loopVars, regVars, accVars, coreVars, tailVars, sVars,
                   channels, mpc, mmsg, mlog, stopLog>>

\* CancelledError is raised at the await the dispatch task is suspended in (wait_for
\* or channel.send); it is no Exception, so only the outer except catches it and
\* breaks the loop; the task ends and the await of stop_all returns
DispatcherCancelled ==
    /\ cancelled
    /\ mpc \in {"wait", "sending"}
    /\ mstop = "awaiting"
    /\ mpc' = "ended"
    /\ mmsg' = NoOutbound
    /\ mstop' = "stopping"
    /\ UNCHANGED <<busVars, loopVars, regVars, accVars, coreVars, tailVars, sVars,
                   channels, mlog, cancelled, stopLog>>

\* for name, channel in self.channels.items(): the adapters in insertion order
StopOrder == SelectSeq(ChannelOrder, LAMBDA c : c \in channels)

\* channel.stop() awaited without the try: its exception leaves stop_all
StopOutcome_mut(raised) == IF raised THEN "propagate" ELSE "continue"

\* try: await channel.stop() / except Exception: logger.error(...)
StopOutcome(raised) == "continue"

\* One round of the for loop of stop_all: stop() of the next adapter returns or raises
StopAdapter ==
    /\ mstop = "stopping"
    /\ LET i == Len(stopLog) + 1 IN
       /\ i <= Len(StopOrder)
       /\ \E raised \in BOOLEAN :
            /\ stopLog' = Append(stopLog, [adapter |-> StopOrder[i], raised |-> raised])
            /\ mstop' = IF StopOutcome(raised) = "propagate" THEN "raised"
                        ELSE IF i = Len(StopOrder) THEN "done"
                        ELSE "stopping"
    /\ UNCHANGED <<busVars, loopVars, regVars, accVars, coreVars, tailVars, sVars, mVars>>

ManagerNext ==
    \/ PublishOutbound
    \/ ManagerStart
    \/ ManagerConsume
    \/ ManagerTimeout
    \/ SendDone
    \/ StopAll
    \/ DispatcherCancelled
    \/ StopAdapter

SpecManager == ManagerInit /\ [][ManagerNext]_vars
(***************************************************************************)
(* The agent loop and the dispatcher of the bus, both running and both     *)
(* stopped at any moment, under fair scheduling: a started task runs, a    *)
(* wait_for returns its message or times out after its second, and the     *)
(* awaited provider call and subscriber callback end.                      *)
(***************************************************************************)
\* Before the tasks start, an adapter has or has not subscribed a callback for
\* the channel the replies go to
ShutdownInit ==
    /\ BusInit
    /\ LoopInit
    /\ RegInit
    /\ tools = LoopTools
    /\ AccInit
    /\ allow_from = {}
    /\ ValInit
    /\ DirInit
    /\ SubInit
    /\ MInit({})
    /\ Ext2Init
    /\ \E subscribed \in BOOLEAN :
         subs = IF subscribed THEN subscribe_outbound(<<>>, <<"x">>, 1) ELSE <<>>
    /\ busRunning = FALSE
    /\ qpc = "new"
    /\ qmsg = NoOutbound
    /\ qidx = 0
    /\ qcalls = <<>>
    /\ qraisedAt = 0

\* An adapter publishes a user message
UserPublishInbound ==
    /\ nPub < MaxMsgs
    /\ publish_inbound(InboundMessage(<<"x">>, <<"u">>, <<"c">>, <<"hello">>, ThreadMeta))
    /\ UNCHANGED <<outbound, conLog, nOut, outConLog, loopVars, regVars, accVars, extVars>>

ShutdownNext ==
    \/ UserPublishInbound
    \/ Run
    \/ Stop
    \/ PollTimeout
    \/ ConsumeInbound
    \/ ProviderRaises
    \/ ProviderAnswers
    \/ DispatchStart
    \/ DispatchGet
    \/ DispatchTimeout
    \/ CallbackDone
    \/ BusStop

SpecShutdown ==
    /\ ShutdownInit
    /\ [][ShutdownNext]_vars
    /\ WF_vars(Run)
    /\ WF_vars(ConsumeInbound)
    /\ WF_vars(PollTimeout)
    /\ WF_vars(ProviderRaises \/ ProviderAnswers)
    /\ WF_vars(DispatchGet)
    /\ WF_vars(DispatchTimeout)
    /\ WF_vars(CallbackDone)
(***************************************************************************)
(* The reconnect loops of the adapters: WhatsAppChannel.start,             *)
(* DiscordChannel.start, DingTalkChannel.start, QQChannel._run_bot, and    *)
(* their stop()                                                            *)
(***************************************************************************)
AdapterKinds == {"whatsapp", "discord", "dingtalk", "qq"}

\* whatsapp and discord hold the websocket themselves (async with
\* websockets.connect); dingtalk and qq await the start() of their SDK client
HoldsSocket(kind) == kind \in {"whatsapp", "discord"}

\* while self._running: the next attempt, or the end of the loop
ReconnectTop(run) == IF run THEN "connecting" ELSE "ended"

\* After an exception of the attempt or of the connection.  whatsapp, discord:
\* except Exception: if self._running: await asyncio.sleep(5).  dingtalk, qq: the
\* except only logs and the same if follows the try.
AfterError(kind, run) == IF run THEN "sleeping" ELSE ReconnectTop(run)

\* After the connection ended without an exception.  whatsapp: the async for over
\* the socket is over; discord: _gateway_loop returned (socket closed, or op 7 / op 9
\* break): the try is left normally and the while tests again.  dingtalk, qq:
\* client.start() returned and if self._running: await asyncio.sleep(5) follows.
AfterEnd(kind, run) ==
    IF HoldsSocket(kind) THEN ReconnectTop(run)
    ELSE IF run THEN "sleeping" ELSE ReconnectTop(run)

\* The loop goes to target; a new attempt is counted with what preceded it
Goto(target, gap) ==
    /\ target = "connecting" => nAttempts < MaxAttempts
    /\ apc' = target
    /\ nAttempts' = IF target = "connecting" THEN nAttempts + 1 ELSE nAttempts
    /\ lastGap' = IF target = "connecting" THEN gap ELSE lastGap

ReconnectFrame ==
    <<busVars, loopVars, regVars, accVars, coreVars, mVars, sVars, stopVars, persist, hist, lastCall, hb, lateVars>>

\* start() (for qq the task of _run_bot): self._running = True and the first attempt
AdapterStart ==
    /\ apc = "new"
    /\ arunning' = TRUE
    /\ Goto("connecting", "first")
    /\ UNCHANGED <<ReconnectFrame, akind>>

\* websockets.connect returns the socket / the SDK client is connected
ConnectSucceeds ==
    /\ apc = "connecting"
    /\ apc' = "connected"
    /\ UNCHANGED <<ReconnectFrame, akind, arunning, nAttempts, lastGap>>

\* The attempt raises
ConnectFails ==
    /\ apc = "connecting"
    /\ Goto(AfterError(akind, arunning), "none")
    /\ UNCHANGED <<ReconnectFrame, akind, arunning>>

\* The connection is lost: with an exception (ConnectionClosedError, an error of
\* the SDK) or without one
ConnectionLost ==
    /\ apc = "connected"
    /\ \E error \in BOOLEAN :
         Goto(IF error THEN AfterError(akind, arunning) ELSE AfterEnd(akind, arunning),
              "none")
    /\ UNCHANGED <<ReconnectFrame, akind, arunning>>

\* asyncio.sleep(5) is over
SleepEnds ==
    /\ apc = "sleeping"
    /\ Goto(ReconnectTop(arunning), "delay")
    /\ UNCHANGED <<ReconnectFrame, akind, arunning>>

\* stop() of a started adapter: self._running = False; whatsapp and discord close
\* the socket they hold (self._ws), qq cancels the bot task and awaits its end,
\* dingtalk closes its HTTP client and cancels its background tasks, not the stream
\* client its start() awaits
AdapterStop ==
    /\ apc \notin {"new", "ended"}
    /\ arunning
    /\ arunning' = FALSE
    /\ apc' = IF akind = "qq" THEN "ended"
              ELSE IF HoldsSocket(akind) /\ apc = "connected" THEN "closing"
              ELSE apc
    /\ UNCHANGED <<ReconnectFrame, akind, nAttempts, lastGap>>

\* The socket stop() has closed ends the async for, with or without an exception
CloseDone ==
    /\ apc = "closing"
    /\ \E error \in BOOLEAN :
         Goto(IF error THEN AfterError(akind, arunning) ELSE AfterEnd(akind, arunning),
              "none")
    /\ UNCHANGED <<ReconnectFrame, akind, arunning>>

ReconnectInit ==
    /\ BusInit
    /\ LoopInit
    /\ RegInit
    /\ tools = LoopTools
    /\ AccInit
    /\ allow_from = {}
    /\ ValInit
    /\ DirInit
    /\ SubInit
    /\ QInit
    /\ MInit({})
    /\ SInit
    /\ StopInit
    /\ \E kind \in AdapterKinds : AInit(kind)
    /\ persist = NoPersist
    /\ hist = NoHist
    /\ lastCall = NoCall
    /\ hb = NoHeartbeat
    /\ LateInit

ReconnectNext ==
    \/ AdapterStart
    \/ ConnectSucceeds
    \/ ConnectFails
    \/ ConnectionLost
    \/ SleepEnds
    \/ AdapterStop
    \/ CloseDone

\* The event loop runs the started task, an attempt succeeds or fails within its
\* time-out, a sleep ends and a closed socket ends its reader.  Nothing makes a
\* connection that works end.
SpecReconnect ==
    /\ ReconnectInit
    /\ [][ReconnectNext]_vars
    /\ WF_vars(AdapterStart)
    /\ WF_vars(ConnectSucceeds \/ ConnectFails)
    /\ WF_vars(SleepEnds)
    /\ WF_vars(CloseDone)
(***************************************************************************)
(* LiteLLMProvider.chat (providers/litellm_provider.py) under the agent    *)
(* loop: acompletion returns a response or raises                          *)
(***************************************************************************)
\* str(e) of what acompletion raises: a provider error, a time-out
AcompletionErrors == {<<"rate limited">>, <<"timed out">>}

\* The content chat() gives a failed call
Diagnostic(e) == <<"Error calling LLM: ">> \o e

\* chat() without its try: the exception of acompletion leaves chat()
chat_mut(raised, response, e) == [exc |-> raised, response |-> response]

\* try: response = await acompletion(**kwargs); return self._parse_response(response)
\* except Exception as e: return LLMResponse(content=f"Error calling LLM: {str(e)}",
\* finish_reason="error").  raised: acompletion raised e, else it returned response.
chat(raised, response, e) ==
    [exc |-> FALSE,
     response |-> IF raised
                  THEN [LLMResponse(Diagnostic(e), <<>>, None) EXCEPT !.finish_reason = "error"]
                  ELSE response]

\* response = await self.provider.chat(...) in the while loop of _process_message
ProviderChat ==
    /\ pc = "chat"
    /\ \E raised \in BOOLEAN, response \in ProviderResponses, e \in AcompletionErrors,
          saveOk \in BOOLEAN :
         LET r == chat(raised, response, e) IN
         IF r.exc
         THEN /\ saveOk
              /\ OnException("provider failed")
              /\ UNCHANGED <<sessions, disk>>
         ELSE OnResponse(r.response, saveOk)
    /\ UNCHANGED <<inbound, nPub, conLog, outConLog, running, toolCtx, regVars, accVars, extVars>>

LLMNext ==
    \/ PublishInbound
    \/ Run
    \/ ConsumeInbound
    \/ ProviderChat
    \/ ExecuteTool
    \/ NextIteration

SpecLLM == Init /\ [][LLMNext]_vars
(***************************************************************************)
(* SessionManager.save and _load (session/manager.py): the JSONL file of a *)
(* session.  A file is the sequence of its characters; a token that is not *)
(* one of the special characters below stands for ordinary characters.     *)
(***************************************************************************)
QUOTE == "\""
BSLASH == "\\"
NL == "\n"
SPACE == " "

\* json.dumps of a str: quotes, and the escapes of '"', '\' and the control
\* character (ensure_ascii leaves none but ASCII)
RECURSIVE escape(_)
escape(s) ==
    IF s = <<>> THEN <<>>
    ELSE (IF Head(s) = QUOTE THEN <<BSLASH, QUOTE>>
          ELSE IF Head(s) = BSLASH THEN <<BSLASH, BSLASH>>
          ELSE IF Head(s) = NL THEN <<BSLASH, "n">>
          ELSE <<Head(s)>>) \o escape(Tail(s))

\* The string written as it is between the quotes
dumps_str_mut(s) == <<QUOTE>> \o s \o <<QUOTE>>

dumps_str(s) == <<QUOTE>> \o escape(s) \o <<QUOTE>>

\* json.dumps of a str or of a dict (items in insertion order, ", " and ": ")
RECURSIVE dumps(_)
dumps(x) ==
    IF x.t = "str" THEN dumps_str(x.v)
    ELSE LET item(i) == dumps_str(x.v[i].k) \o <<":", SPACE>> \o dumps(x.v[i].v)
             items == [i \in 1..Len(x.v) |-> item(i)]
             RECURSIVE joined(_)
             joined(i) == IF i > Len(items) THEN <<>>
                          ELSE (IF i > 1 THEN <<",", SPACE>> ELSE <<>>) \o items[i]
                                   \o joined(i + 1)
         IN  <<"{">> \o joined(1) \o <<"}">>

\* Body of value, with value computed once
Let(value, Body(_)) == CHOOSE out \in {Body(v) : v \in {value}} : TRUE

\* The json scanner: the position after the white space from i on
RECURSIVE skip_ws(_, _)
skip_ws(s, i) == IF i <= Len(s) /\ s[i] \in {SPACE, NL} THEN skip_ws(s, i + 1) ELSE i

\* What a scan returns: the value and the next position, or the decode error
Scanned(value, next) == [ok |-> TRUE, value |-> value, next |-> next]
DecodeError == [ok |-> FALSE, value |-> JStr(<<>>), next |-> 0]

\* The string whose opening quote precedes position i
RECURSIVE scan_string(_, _, _)
scan_string(s, i, acc) ==
    IF i > Len(s) THEN DecodeError
    ELSE IF s[i] = QUOTE THEN Scanned(acc, i + 1)
    ELSE IF s[i] = NL THEN DecodeError
    ELSE IF s[i] = BSLASH
    THEN IF i + 1 > Len(s) THEN DecodeError
         ELSE IF s[i + 1] = "n" THEN scan_string(s, i + 2, Append(acc, NL))
         ELSE IF s[i + 1] \in {QUOTE, BSLASH} THEN scan_string(s, i + 2, Append(acc, s[i + 1]))
         ELSE DecodeError
    ELSE scan_string(s, i + 1, Append(acc, s[i]))

\* dict[key] = value while the object is built: a repeated key keeps its place
SetItem(items, key, value) ==
    IF key \in DictKeys(items)
    THEN [j \in 1..Len(items) |-> IF items[j].k = key THEN Item(key, value) ELSE items[j]]
    ELSE Append(items, Item(key, value))

\* A value from position i on: a string or an object
RECURSIVE scan_value(_, _), scan_items(_, _, _)
scan_value(s, i) ==
    IF i > Len(s) THEN DecodeError
    ELSE IF s[i] = QUOTE
    THEN LET r == scan_string(s, i + 1, <<>>) IN
         IF r.ok THEN Scanned(JStr(r.value), r.next) ELSE DecodeError
    ELSE IF s[i] = "{"
    THEN LET j == skip_ws(s, i + 1) IN
         IF j <= Len(s) /\ s[j] = "}" THEN Scanned(JDict(<<>>), j + 1)
         ELSE scan_items(s, j, <<>>)
    ELSE DecodeError

\* The items of an object from position i on, which is at a key
scan_items(s, i, acc) ==
    IF i > Len(s) \/ s[i] # QUOTE THEN DecodeError
    ELSE Let(scan_string(s, i + 1, <<>>), LAMBDA k :
         IF ~k.ok THEN DecodeError
         ELSE LET c == skip_ws(s, k.next) IN
              IF c > Len(s) \/ s[c] # ":" THEN DecodeError
              ELSE Let(scan_value(s, skip_ws(s, c + 1)), LAMBDA v :
                   IF ~v.ok THEN DecodeError
                   ELSE Let(<<skip_ws(s, v.next), SetItem(acc, k.value, v.value)>>, LAMBDA n :
                        LET e == n[1]
                            items == n[2]
                        IN  IF e > Len(s) THEN DecodeError
                            ELSE IF s[e] = "}" THEN Scanned(JDict(items), e + 1)
                            ELSE IF s[e] = "," THEN scan_items(s, skip_ws(s, e + 1), items)
                            ELSE DecodeError)))

\* json.loads: one value and nothing but white space after it
loads(text) ==
    Let(text, LAMBDA s :
        Let(scan_value(s, skip_ws(s, 1)), LAMBDA r :
            IF r.ok /\ skip_ws(s, r.next) > Len(s) THEN r ELSE DecodeError))

\* datetime.isoformat and datetime.fromisoformat (ValueError for what is no ISO
\* string); NoDate stands for None where a datetime may stand
Times == {<<"t1">>, <<"t2">>}
NoDate == [iso |-> <<>>]
isoformat(dt) == dt.iso
fromisoformat(s) == IF s \in Times THEN Return([iso |-> s]) ELSE Raise("ValueError")

\* Session(key, messages, created_at, updated_at, metadata)
Session(key, msgs, created_at, updated_at, metadata) ==
    [key |-> key, messages |-> msgs, created_at |-> created_at,
     updated_at |-> updated_at, metadata |-> metadata]

\* What save writes: the metadata line, then a line for every message
SaveFile(session) ==
    LET metadata_line ==
            JDict(<<Item(<<"_type">>, JStr(<<"metadata">>)),
                    Item(<<"created_at">>, JStr(isoformat(session.created_at))),
                    Item(<<"updated_at">>, JStr(isoformat(session.updated_at))),
                    Item(<<"metadata">>, session.metadata)>>)
        RECURSIVE lines(_)
        lines(i) == IF i > Len(session.messages) THEN <<>>
                    ELSE dumps(session.messages[i]) \o <<NL>> \o lines(i + 1)
    IN  dumps(metadata_line) \o <<NL>> \o lines(1)

\* str.strip
RECURSIVE strip(_)
strip(s) ==
    IF s # <<>> /\ Head(s) \in {SPACE, NL} THEN strip(Tail(s))
    ELSE IF s # <<>> /\ s[Len(s)] \in {SPACE, NL} THEN strip(SubSeq(s, 1, Len(s) - 1))
    ELSE s

\* data.get("_type") == "metadata"
IsMetadataLine(data) ==
    /\ <<"_type">> \in DictKeys(data.v)
    /\ DictGet(data.v, <<"_type">>).t = "str"
    /\ DictGet(data.v, <<"_type">>).v = <<"metadata">>

\* The for loop of _load over the lines; acc holds messages, metadata, created_at
\* and whether an exception has left the loop
RECURSIVE load_lines(_, _, _)
load_lines(ls, i, acc) ==
    IF i > Len(ls) THEN acc
    ELSE LET line == strip(ls[i]) IN
         IF line = <<>> THEN load_lines(ls, i + 1, acc)
         ELSE Let(loads(line), LAMBDA r :
              IF ~r.ok \/ r.value.t # "dict" THEN [acc EXCEPT !.exc = TRUE]
              ELSE IF IsMetadataLine(r.value)
              THEN LET d == r.value.v
                       c == IF <<"created_at">> \in DictKeys(d)
                            THEN DictGet(d, <<"created_at">>) ELSE JStr(<<>>)
                       m == IF <<"metadata">> \in DictKeys(d)
                            THEN DictGet(d, <<"metadata">>) ELSE JDict(<<>>)
                   IN  IF c.t # "str" \/ (c.v # <<>> /\ fromisoformat(c.v).exc)
                       THEN [acc EXCEPT !.exc = TRUE]
                       ELSE load_lines(ls, i + 1,
                                [acc EXCEPT !.metadata = m,
                                            !.created_at = IF c.v = <<>> THEN NoDate
                                                           ELSE fromisoformat(c.v).value])
              ELSE load_lines(ls, i + 1, [acc EXCEPT !.messages = Append(@, r.value)]))

\* _load of an existing file at time now: the Session (created_at or now, updated_at
\* by default now), or None after an exception
_load(file, key, now) ==
    Let(Split(file, NL), LAMBDA ls :
    Let(load_lines(ls, 1, [messages |-> <<>>, metadata |-> JDict(<<>>),
                           created_at |-> NoDate, exc |-> FALSE]), LAMBDA acc :
        [none |-> acc.exc,
         session |-> Session(key, acc.messages,
                             IF acc.created_at = NoDate THEN now ELSE acc.created_at,
                             now, acc.metadata)]))

\* Session.add_message: role, content, timestamp, then the keyword arguments
StoredMessage(role, content, time, kwargs) ==
    JDict(<<Item(<<"role">>, JStr(role)), Item(<<"content">>, JStr(content)),
            Item(<<"timestamp">>, JStr(time))>> \o kwargs)

\* Messages with the characters json escapes, with white space, with braces
StoredMessages ==
    { StoredMessage(<<"user">>, <<"hi">>, <<"t1">>, <<>>),
      StoredMessage(<<"user">>, <<QUOTE, "a", QUOTE>>, <<"t1">>, <<>>),
      StoredMessage(<<"assistant">>, <<BSLASH, "n">>, <<"t2">>, <<>>),
      StoredMessage(<<"assistant">>, <<"a", NL, SPACE>>, <<"t2">>, <<>>),
      StoredMessage(<<"user">>, <<"{", "}", ",">>, <<"t1">>, <<>>),
      StoredMessage(<<"tool">>, <<>>, <<"t2">>, <<Item(<<"name">>, JStr(<<"echo">>))>>) }

StoredMetadata ==
    { JDict(<<>>),
      JDict(<<Item(<<"title">>, JStr(<<"a", QUOTE>>))>>),
      JDict(<<Item(<<"b">>, JStr(<<"1">>)), Item(<<"a">>, JStr(<<NL>>))>>) }

\* The sessions a SessionManager may hold
StoredSessions ==
    { Session(<<"x", ":", "c">>, msgs, [iso |-> <<"t1">>], [iso |-> u], md) :
        msgs \in UNION {[1..n -> StoredMessages] : n \in 0..MaxStored},
        u \in Times, md \in StoredMetadata }

PersistFrame ==
    <<busVars, loopVars, regVars, accVars, coreVars, mVars, sVars, stopVars, aVars, hist, lastCall, hb, lateVars>>

\* save(session)
PersistSave ==
    /\ persist.st = "new"
    /\ persist' = [persist EXCEPT !.st = "saved", !.file = SaveFile(persist.session)]
    /\ UNCHANGED PersistFrame

\* A SessionManager with an empty cache: get_or_create(key) loads the file, and
\* creates a new session if _load returns None
PersistLoad ==
    /\ persist.st = "saved"
    /\ \E now \in Times :
         LET s == _load(persist.file, persist.session.key, [iso |-> now]) IN
         persist' = [persist EXCEPT
                        !.st = "loaded",
                        !.failed = s.none,
                        !.loaded = IF s.none
                                   THEN Session(persist.session.key, <<>>, [iso |-> now],
                                                [iso |-> now], JDict(<<>>))
                                   ELSE s.session]
    /\ UNCHANGED PersistFrame

\* save(session) of the loaded session
PersistSaveAgain ==
    /\ persist.st = "loaded"
    /\ persist' = [persist EXCEPT !.st = "resaved", !.file2 = SaveFile(persist.loaded)]
    /\ UNCHANGED PersistFrame

PersistInit ==
    /\ BusInit
    /\ LoopInit
    /\ RegInit
    /\ tools = LoopTools
    /\ AccInit
    /\ allow_from = {}
    /\ ValInit
    /\ DirInit
    /\ SubInit
    /\ QInit
    /\ MInit({})
    /\ SInit
    /\ StopInit
    /\ AInit("none")
    /\ hist = NoHist
    /\ lastCall = NoCall
    /\ hb = NoHeartbeat
    /\ LateInit
    /\ \E s \in StoredSessions :
         persist = [st |-> "new", session |-> s, file |-> <<>>, failed |-> FALSE,
                    loaded |-> s, file2 |-> <<>>]

PersistNext ==
    \/ PersistSave
    \/ PersistLoad
    \/ PersistSaveAgain

SpecPersist == PersistInit /\ [][PersistNext]_vars
(***************************************************************************)
(* Session.get_history (session/manager.py) called with any limit          *)
(***************************************************************************)
\* The messages of a session as add_message appends them
HistoryMessages ==
    { [role |-> "user", content |-> <<"hello">>, timestamp |-> <<"t1">>],
      [role |-> "assistant", content |-> <<"hi">>, timestamp |-> <<"t2">>],
      [role |-> "user", content |-> <<>>, timestamp |-> <<"t2">>],
      [role |-> "assistant", content |-> <<"hello">>, timestamp |-> <<"t1">>] }

\* The limits get_history is called with: 0 up to one more than the longest session
MaxLimit == MaxStored + 1

\* session.get_history(max_messages=limit)
GetHistory ==
    /\ ~hist.called
    /\ hist' = [hist EXCEPT !.called = TRUE,
                            !.result = get_history(hist.messages, hist.limit)]
    /\ UNCHANGED <<busVars, loopVars, regVars, accVars, coreVars, mVars, sVars,
                   stopVars, aVars, persist, lastCall, hb, lateVars>>

HistoryInit ==
    /\ BusInit
    /\ LoopInit
    /\ RegInit
    /\ tools = LoopTools
    /\ AccInit
    /\ allow_from = {}
    /\ ValInit
    /\ DirInit
    /\ SubInit
    /\ QInit
    /\ MInit({})
    /\ SInit
    /\ StopInit
    /\ AInit("none")
    /\ persist = NoPersist
    /\ lastCall = NoCall
    /\ hb = NoHeartbeat
    /\ LateInit
    /\ \E msgs \in UNION {[1..n -> HistoryMessages] : n \in 0..MaxStored},
          limit \in 0..MaxLimit :
         hist = [called |-> FALSE, messages |-> msgs, limit |-> limit, result |-> <<>>]

HistoryNext == GetHistory

SpecHistory == HistoryInit /\ [][HistoryNext]_vars
(***************************************************************************)
(* ToolRegistry.register, unregister, get, has and get_definitions         *)
(* (agent/tools/registry.py), with tools that share their names            *)
(***************************************************************************)
\* Two tools under each name, told apart by their schema
NamedTools ==
    { Tool(name, [type |-> "object",
                  properties |-> [text |-> [type |-> "string", minLength |-> k]],
                  required |-> <<"text">>]) :
        name \in {"echo", "count", "message"}, k \in {1, 2} }

RegistryNames == {tl.name : tl \in NamedTools} \cup {"nope"}

\* ToolRegistry.get: self._tools.get(name), the tool or None (the empty sequence)
get(reg, name) == IF name \in DOMAIN reg THEN <<reg[name]>> ELSE <<>>

\* Tool.to_schema
to_schema(tool) ==
    [type |-> "function",
     function |-> [name |-> tool.name, parameters |-> tool.parameters]]

\* ToolRegistry.get_definitions: the schema of every value of the dict
RECURSIVE definitions_of(_, _)
definitions_of(reg, names) ==
    IF names = {} THEN <<>>
    ELSE LET n == CHOOSE x \in names : TRUE
         IN  <<to_schema(reg[n])>> \o definitions_of(reg, names \ {n})

get_definitions(reg) == definitions_of(reg, DOMAIN reg)

ToolDictFrame ==
    <<busVars, loopVars, lastExec, nExec, accVars, coreVars, mVars, sVars, stopVars,
      aVars, persist, hist, hb, lateVars>>

\* registry.register(tool)
RegisterTool ==
    /\ \E tool \in NamedTools :
         /\ tools' = register(tools, tool)
         /\ lastCall' = [op |-> "register", name |-> tool.name, tool |-> <<tool>>,
                         before |-> tools]
    /\ UNCHANGED ToolDictFrame

\* registry.unregister(name)
UnregisterTool ==
    /\ \E name \in RegistryNames :
         /\ tools' = unregister(tools, name)
         /\ lastCall' = [op |-> "unregister", name |-> name, tool |-> <<>>,
                         before |-> tools]
    /\ UNCHANGED ToolDictFrame

ToolDictNext ==
    \/ RegisterTool
    \/ UnregisterTool

SpecToolDict == RegistryInit /\ [][ToolDictNext]_vars
(***************************************************************************)
(* HeartbeatService (heartbeat/service.py).  HEARTBEAT.md is the sequence  *)
(* of its characters; a checkbox marker, a comment delimiter and a word    *)
(* are one token each.                                                     *)
(***************************************************************************)
OPEN == "<!--"
CLOSE == "-->"

\* skip_patterns
skip_patterns == {<<"- [ ]">>, <<"* [ ]">>, <<"- [x]">>, <<"* [x]">>}

\* The loop of _is_heartbeat_empty over the lines from the i-th on
RECURSIVE no_content_from(_, _)
no_content_from(ls, i) ==
    IF i > Len(ls) THEN TRUE
    ELSE LET line == strip(ls[i]) IN
         IF line = <<>> \/ Head(line) = "#" \/ Head(line) = OPEN \/ line \in skip_patterns
         THEN no_content_from(ls, i + 1)
         ELSE FALSE

\* _is_heartbeat_empty(content); a missing or unreadable file is content None
_is_heartbeat_empty(file) ==
    IF ~file.readable \/ file.content = <<>> THEN TRUE
    ELSE no_content_from(Split(file.content, NL), 1)

HeartbeatFile(content) == [readable |-> TRUE, content |-> content]
MissingFile == [readable |-> FALSE, content |-> <<>>]

\* HEARTBEAT.md as users leave it: missing, empty, blank lines, a heading, a
\* one-line comment, checkboxes without and with a task, a plain task, a comment
\* over several lines, a task after a comment on its line
HeartbeatFiles ==
    { MissingFile,
      HeartbeatFile(<<>>),
      HeartbeatFile(<<SPACE, NL, NL>>),
      HeartbeatFile(<<"#", SPACE, "Tasks", NL>>),
      HeartbeatFile(<<"#", "Tasks", NL, OPEN, SPACE, "note", SPACE, CLOSE, NL, "- [ ]", NL>>),
      HeartbeatFile(<<SPACE, "* [x]", SPACE, NL, "- [x]">>),
      HeartbeatFile(<<"#", "Tasks", NL, "- [ ]", SPACE, "water", NL>>),
      HeartbeatFile(<<"water">>),
      HeartbeatFile(<<OPEN, NL, "- [ ]", SPACE, "water", NL, CLOSE, NL>>),
      HeartbeatFile(<<OPEN, "note", CLOSE, SPACE, "water", NL>>) }

NoTick == [ran |-> FALSE, file |-> MissingFile, called |-> FALSE, live |-> FALSE]

HeartbeatFrame ==
    <<busVars, loopVars, regVars, accVars, coreVars, mVars, sVars, stopVars, aVars,
      persist, hist, lastCall, lateVars>>

\* start(): nothing when disabled, else _running = True and the task of _run_loop
HeartbeatStart ==
    /\ hb.pc = "new"
    /\ hb' = IF hb.enabled THEN [hb EXCEPT !.running = TRUE, !.pc = "sleeping"]
             ELSE [hb EXCEPT !.pc = "disabled"]
    /\ UNCHANGED HeartbeatFrame

\* stop(): _running = False and the task is cancelled: CancelledError at its await
\* (the sleep, or the callback) breaks the loop
HeartbeatStop ==
    /\ hb.pc \in {"sleeping", "calling"}
    /\ hb' = [hb EXCEPT !.running = FALSE, !.pc = "ended"]
    /\ UNCHANGED HeartbeatFrame

\* The sleep of _run_loop is over: if self._running: await self._tick(), which reads
\* the file and awaits on_heartbeat(HEARTBEAT_PROMPT) unless _is_heartbeat_empty
Tick ==
    /\ hb.pc = "sleeping"
    /\ hb.nTicks < MaxTicks
    /\ LET call == hb.running /\ ~_is_heartbeat_empty(hb.file) IN
       hb' = [hb EXCEPT !.nTicks = @ + 1,
                        !.pc = IF call THEN "calling" ELSE "sleeping",
                        !.tick = [ran |-> TRUE, file |-> hb.file, called |-> call,
                                  live |-> hb.enabled /\ hb.running]]
    /\ UNCHANGED HeartbeatFrame

\* on_heartbeat returns or raises (except Exception: logger.error) and the loop sleeps
CallbackReturns ==
    /\ hb.pc = "calling"
    /\ hb' = [hb EXCEPT !.pc = "sleeping"]
    /\ UNCHANGED HeartbeatFrame

\* The user or the agent rewrites or removes HEARTBEAT.md
EditFile ==
    /\ hb.pc # "none"
    /\ \E f \in HeartbeatFiles : f # hb.file /\ hb' = [hb EXCEPT !.file = f]
    /\ UNCHANGED HeartbeatFrame

HeartbeatInit ==
    /\ BusInit
    /\ LoopInit
    /\ RegInit
    /\ tools = LoopTools
    /\ AccInit
    /\ allow_from = {}
    /\ ValInit
    /\ DirInit
    /\ SubInit
    /\ QInit
    /\ MInit({})
    /\ SInit
    /\ StopInit
    /\ AInit("none")
    /\ persist = NoPersist
    /\ hist = NoHist
    /\ lastCall = NoCall
    /\ LateInit
    /\ \E enabled \in BOOLEAN, f \in HeartbeatFiles :
         hb = [pc |-> "new", enabled |-> enabled, running |-> FALSE, file |-> f,
               nTicks |-> 0, tick |-> NoTick]

HeartbeatNext ==
    \/ HeartbeatStart
    \/ HeartbeatStop
    \/ Tick
    \/ CallbackReturns
    \/ EditFile

SpecHeartbeat == HeartbeatInit /\ [][HeartbeatNext]_vars
(***************************************************************************)
(* The state before any of the components below exists                     *)
(***************************************************************************)
OldInit ==
    /\ BusInit
    /\ LoopInit
    /\ RegInit
    /\ tools = LoopTools
    /\ AccInit
    /\ allow_from = {}
    /\ ValInit
    /\ DirInit
    /\ SubInit
    /\ QInit
    /\ MInit({})
    /\ SInit
    /\ StopInit
    /\ AInit("none")
    /\ persist = NoPersist
    /\ hist = NoHist
    /\ lastCall = NoCall
    /\ hb = NoHeartbeat

(***************************************************************************)
(* CronTool (agent/tools/cron.py) over the jobs of the CronService.        *)
(***************************************************************************)
\* An optional argument: None, or a value
NoInt == [some |-> FALSE, v |-> 0]
SomeInt(n) == [some |-> TRUE, v |-> n]
NoStr == [some |-> FALSE, v |-> <<>>]
SomeStr(s) == [some |-> TRUE, v |-> s]

\* CronSchedule(kind="every", every_ms=...) and CronSchedule(kind="cron", expr=...)
CronSchedule(kind, every_ms, expr) == [kind |-> kind, every_ms |-> every_ms, expr |-> expr]

\* CronService.add_job(name, schedule, message, deliver, channel, to): the job with
\* its payload is added to the store and returned
add_job(jobs, name, schedule, message, deliver, channel, to) ==
    Append(jobs, [id |-> Len(jobs) + 1, name |-> name, schedule |-> schedule,
                  payload |-> [message |-> message, deliver |-> deliver,
                               channel |-> channel, to |-> to]])

\* The tool adds the job whatever the context is
_add_job_mut(self, message, every_seconds, cron_expr) ==
    IF message = <<>>
    THEN [result |-> "Error: message is required for add", jobs |-> self.jobs]
    ELSE IF every_seconds.some /\ every_seconds.v # 0
    THEN [result |-> "Created job",
          jobs |-> add_job(self.jobs, message,
                           CronSchedule("every", SomeInt(every_seconds.v * 1000), NoStr),
                           message, TRUE, self.channel, self.chat_id)]
    ELSE IF cron_expr.some /\ cron_expr.v # <<>>
    THEN [result |-> "Created job",
          jobs |-> add_job(self.jobs, message, CronSchedule("cron", NoInt, cron_expr),
                           message, TRUE, self.channel, self.chat_id)]
    ELSE [result |-> "Error: either every_seconds or cron_expr is required",
          jobs |-> self.jobs]

\* CronTool._add_job: the string returned and the jobs of the service afterwards
_add_job(self, message, every_seconds, cron_expr) ==
    IF message = <<>>
    THEN [result |-> "Error: message is required for add", jobs |-> self.jobs]
    ELSE IF self.channel = <<>> \/ self.chat_id = <<>>
    THEN [result |-> "Error: no session context (channel/chat_id)", jobs |-> self.jobs]
    ELSE IF every_seconds.some /\ every_seconds.v # 0
    THEN [result |-> "Created job",
          jobs |-> add_job(self.jobs, message,
                           CronSchedule("every", SomeInt(every_seconds.v * 1000), NoStr),
                           message, TRUE, self.channel, self.chat_id)]
    ELSE IF cron_expr.some /\ cron_expr.v # <<>>
    THEN [result |-> "Created job",
          jobs |-> add_job(self.jobs, message, CronSchedule("cron", NoInt, cron_expr),
                           message, TRUE, self.channel, self.chat_id)]
    ELSE [result |-> "Error: either every_seconds or cron_expr is required",
          jobs |-> self.jobs]

\* What the loop and the model pass: channels and chat ids, the empty ones too
CronChannels == {<<>>, <<"x">>, <<"y">>}
CronChats == {<<>>, <<"c">>}
CronMessages == {<<>>, <<"m">>}
EverySeconds == {NoInt, SomeInt(0), SomeInt(5)}
CronExprs == {NoStr, SomeStr(<<>>), SomeStr(<<"0 9 * * *">>)}

NoAdd ==
    [done |-> FALSE, channel |-> <<>>, chat_id |-> <<>>, message |-> <<>>,
     every_seconds |-> NoInt, cron_expr |-> NoStr, result |-> "", before |-> <<>>]

CronFrame == <<oldVars, store, mochat, typing>>

\* set_context(channel, chat_id)
CronSetContext ==
    /\ \E channel \in CronChannels, chat_id \in CronChats :
         /\ <<channel, chat_id>> # <<cron.channel, cron.chat_id>>
         /\ cron' = [cron EXCEPT !.channel = channel, !.chat_id = chat_id]
    /\ UNCHANGED CronFrame

\* execute(action="add", message, every_seconds, cron_expr)
CronAdd ==
    /\ Len(cron.jobs) < MaxJobs
    /\ \E message \in CronMessages, every_seconds \in EverySeconds, cron_expr \in CronExprs :
         LET r == _add_job(cron, message, every_seconds, cron_expr) IN
         cron' = [cron EXCEPT
                    !.jobs = r.jobs,
                    !.last = [done |-> TRUE, channel |-> cron.channel,
                              chat_id |-> cron.chat_id, message |-> message,
                              every_seconds |-> every_seconds, cron_expr |-> cron_expr,
                              result |-> r.result, before |-> cron.jobs]]
    /\ UNCHANGED CronFrame

CronInit ==
    /\ OldInit
    /\ cron = [st |-> "tool", channel |-> <<>>, chat_id |-> <<>>, jobs |-> <<>>, last |-> NoAdd]
    /\ store = NoStore
    /\ mochat = NoMochat
    /\ typing = NoTyping

CronNext ==
    \/ CronSetContext
    \/ CronAdd

SpecCron == CronInit /\ [][CronNext]_vars
(***************************************************************************)
(* The agent loop with a thinking model: responses that carry              *)
(* reasoning_content, with and without tool calls.                         *)
(***************************************************************************)
ThinkingResponses ==
    { LLMResponse(<<"hi">>, <<>>, None),
      LLMResponse(<<"deep">>, <<>>, <<"why">>),
      LLMResponse(<<"look">>, <<BadEchoCall>>, <<"how">>) }

\* provider.chat of a thinking model returns
ProviderThinks ==
    /\ pc = "chat"
    /\ \E response \in ThinkingResponses : OnResponse(response, TRUE)
    /\ UNCHANGED <<inbound, nPub, conLog, outConLog, running, toolCtx, regVars, accVars, extVars>>

ThinkingNext ==
    \/ PublishInbound
    \/ Run
    \/ ConsumeInbound
    \/ ProviderThinks
    \/ ExecuteTool
    \/ NextIteration

SpecThinking == Init /\ [][ThinkingNext]_vars
(***************************************************************************)
(* SessionManager (session/manager.py): the cache by key and the files by  *)
(* path.  A message is marked with the key of the chat it came from.       *)
(***************************************************************************)
\* str.replace(old, new) for a one-character old
RECURSIVE replace(_, _, _)
replace(s, old, new) ==
    IF s = <<>> THEN <<>>
    ELSE <<IF Head(s) = old THEN new ELSE Head(s)>> \o replace(Tail(s), old, new)

\* unsafe = '<>:"/\\|?*'
unsafe == <<"<", ">", ":", QUOTE, "/", BSLASH, "|", "?", "*">>

\* The for loop of safe_filename from the i-th unsafe character on
RECURSIVE replace_unsafe(_, _)
replace_unsafe(name, i) ==
    IF i > Len(unsafe) THEN name
    ELSE replace_unsafe(replace(name, unsafe[i], "_"), i + 1)

\* utils.helpers.safe_filename
safe_filename(name) == strip(replace_unsafe(name, 1))

\* SessionManager._get_session_path, under sessions_dir
_get_session_path(key) == safe_filename(replace(key, ":", "_")) \o <<".jsonl">>

\* The session keys "channel:chat_id" of the chats that write
SessionKeys ==
    { <<"x", ":", "c">>, <<"y", ":", "c">>, <<"x", ":", "a", "/", "b">>,
      <<"x", ":", "a", "_", "b">> }

SessionPaths == {_get_session_path(k) : k \in SessionKeys}

StoreFrame == <<oldVars, cron, mochat, typing>>

\* get_or_create(key): the cached session, else the one loaded from the file of the
\* key, else a new one
StoreGetOrCreate(key) ==
    IF key \in store.cached THEN store.cache[key]
    ELSE IF _get_session_path(key) \in store.written THEN store.files[_get_session_path(key)]
    ELSE <<>>

\* A turn of the chat of key: get_or_create, add_message, save
StoreTurn ==
    /\ store.nTurns < MaxSaves
    /\ \E key \in SessionKeys :
         LET session == Append(StoreGetOrCreate(key), key) IN
         store' = [store EXCEPT
                     !.used = @ \cup {key},
                     !.cached = @ \cup {key},
                     !.cache = [@ EXCEPT ![key] = session],
                     !.written = @ \cup {_get_session_path(key)},
                     !.files = [@ EXCEPT ![_get_session_path(key)] = session],
                     !.nTurns = @ + 1]
    /\ UNCHANGED StoreFrame

\* The process is restarted: a new SessionManager with an empty cache, the same files
StoreRestart ==
    /\ store.cached # {}
    /\ store' = [store EXCEPT !.cached = {}, !.cache = [k \in SessionKeys |-> <<>>]]
    /\ UNCHANGED StoreFrame

StoreInit ==
    /\ OldInit
    /\ cron = NoCron
    /\ store = [st |-> "manager", used |-> {}, cached |-> {}, cache |-> [k \in SessionKeys |-> <<>>],
                written |-> {}, files |-> [p \in SessionPaths |-> <<>>], nTurns |-> 0]
    /\ mochat = NoMochat
    /\ typing = NoTyping

StoreNext ==
    \/ StoreTurn
    \/ StoreRestart

SpecStore == StoreInit /\ [][StoreNext]_vars
(***************************************************************************)
(* MochatChannel (channels/mochat.py) with reply_delay_mode "non-mention": *)
(* the DelayState of one panel.  An entry is the number of its arrival; a  *)
(* timer task is the number of the enqueue that created it.  No coroutine  *)
(* is suspended while it holds state.lock, and the dispatch awaits only    *)
(* the put of an unbounded queue, so each handler runs in one step.        *)
(***************************************************************************)
TimerTasks == 1..MaxEvents

\* task.cancel() of a timer task: it ends at its sleep without flushing
CancelTimer(tasks, t) ==
    IF t # 0 /\ tasks[t] = "sleeping" THEN [tasks EXCEPT ![t] = "cancelled"] ELSE tasks

\* The entries stay in the buffer after they are copied
_flush_delayed_entries_mut(state, current, entry) ==
    LET entries == state.entries \o entry IN
    [entries |-> entries,
     timer |-> 0,
     tasks |-> IF state.timer # current THEN CancelTimer(state.tasks, state.timer)
               ELSE state.tasks,
     dispatched |-> entries]

\* _flush_delayed_entries under state.lock, run by task current (0: not a timer) with
\* the entry of a mention or none: the state afterwards and the entries to dispatch
_flush_delayed_entries(state, current, entry) ==
    LET entries == state.entries \o entry IN
    [entries |-> <<>>,
     timer |-> 0,
     tasks |-> IF state.timer # current THEN CancelTimer(state.tasks, state.timer)
               ELSE state.tasks,
     dispatched |-> entries]

\* _dispatch_entries: one inbound message for the entries, none for no entries
Dispatched(forwarded, entries, was_mentioned) ==
    IF entries = <<>> THEN forwarded
    ELSE Append(forwarded, [entries |-> entries, was_mentioned |-> was_mentioned])

DelayFrame == <<oldVars, cron, store, typing>>

\* A panel message that does not mention the agent: _enqueue_delayed_entry
MochatEnqueue ==
    /\ mochat.running
    /\ mochat.nArrived < MaxEvents
    /\ LET id == mochat.nArrived + 1 IN
       mochat' = [mochat EXCEPT
                    !.nArrived = id,
                    !.entries = Append(@, id),
                    !.tasks = [CancelTimer(@, mochat.timer) EXCEPT ![id] = "sleeping"],
                    !.timer = id]
    /\ UNCHANGED DelayFrame

\* A panel message that mentions the agent: _flush_delayed_entries(..., "mention", entry)
MochatMention ==
    /\ mochat.running
    /\ mochat.nArrived < MaxEvents
    /\ LET id == mochat.nArrived + 1
           r == _flush_delayed_entries(mochat, 0, <<id>>)
       IN  mochat' = [mochat EXCEPT
                        !.nArrived = id,
                        !.entries = r.entries,
                        !.timer = r.timer,
                        !.tasks = r.tasks,
                        !.forwarded = Dispatched(@, r.dispatched, TRUE)]
    /\ UNCHANGED DelayFrame

\* The sleep of _delay_flush_after is over: _flush_delayed_entries(..., "timer", None)
TimerFlush ==
    /\ \E t \in TimerTasks :
         /\ mochat.tasks[t] = "sleeping"
         /\ LET r == _flush_delayed_entries(mochat, t, <<>>) IN
            mochat' = [mochat EXCEPT
                         !.entries = r.entries,
                         !.timer = r.timer,
                         !.tasks = [r.tasks EXCEPT ![t] = "done"],
                         !.forwarded = Dispatched(@, r.dispatched, FALSE)]
    /\ UNCHANGED DelayFrame

\* stop(): _running = False and _cancel_delay_timers
MochatStop ==
    /\ mochat.running
    /\ mochat' = [mochat EXCEPT
                    !.running = FALSE,
                    !.tasks = CancelTimer(@, mochat.timer),
                    !.timer = 0,
                    !.entries = <<>>]
    /\ UNCHANGED DelayFrame

DelayInit ==
    /\ OldInit
    /\ cron = NoCron
    /\ store = NoStore
    /\ mochat = [st |-> "delay", running |-> TRUE, entries |-> <<>>, timer |-> 0,
                 tasks |-> [t \in TimerTasks |-> "none"], nArrived |-> 0,
                 forwarded |-> <<>>]
    /\ typing = NoTyping

DelayNext ==
    \/ MochatEnqueue
    \/ MochatMention
    \/ TimerFlush
    \/ MochatStop

SpecDelay == DelayInit /\ [][DelayNext]_vars
(***************************************************************************)
(* MochatChannel: the de-duplication of _process_inbound_event.  The       *)
(* delay mode is off and no mention is required, so that an event that is  *)
(* not a duplicate is forwarded.                                           *)
(***************************************************************************)
\* _remember_message_id without the discard from the set
_remember_message_id_mut(seen_set, seen_queue, message_id) ==
    IF message_id \in seen_set
    THEN [seen |-> TRUE, seen_set |-> seen_set, seen_queue |-> seen_queue]
    ELSE LET queue == Append(seen_queue, message_id)
             over == IF Len(queue) > MAX_SEEN_MESSAGE_IDS
                     THEN Len(queue) - MAX_SEEN_MESSAGE_IDS ELSE 0
         IN  [seen |-> FALSE,
              seen_set |-> seen_set \cup {message_id},
              seen_queue |-> SubSeq(queue, over + 1, Len(queue))]

\* _remember_message_id on the set and the deque of a key: whether the id was seen,
\* and the set and the deque afterwards
_remember_message_id(seen_set, seen_queue, message_id) ==
    IF message_id \in seen_set
    THEN [seen |-> TRUE, seen_set |-> seen_set, seen_queue |-> seen_queue]
    ELSE LET queue == Append(seen_queue, message_id)
             over == IF Len(queue) > MAX_SEEN_MESSAGE_IDS
                     THEN Len(queue) - MAX_SEEN_MESSAGE_IDS ELSE 0
         IN  [seen |-> FALSE,
              seen_set |-> (seen_set \cup {message_id})
                              \ {queue[i] : i \in 1..over},
              seen_queue |-> SubSeq(queue, over + 1, Len(queue))]

\* seen_key = f"{target_kind}:{target_id}"
SeenKeys == {<<"session", ":", "s">>, <<"panel", ":", "p">>}

\* The messageId of an event, the empty one too
MessageIds == {<<>>, <<"m1">>, <<"m2">>, <<"m3">>}

\* What delivers an event to _process_inbound_event
EventPaths == {"socket", "notify", "watch", "poll"}

NoEvent ==
    [done |-> FALSE, path |-> "socket", key |-> <<>>, message_id |-> <<>>,
     before |-> <<>>, forwarded |-> FALSE]

SeenFrame == <<oldVars, cron, store, typing>>

\* _process_inbound_event for a message.add event of an allowed author
ProcessInboundEvent ==
    /\ mochat.nEvents < MaxEvents
    /\ \E path \in EventPaths, key \in SeenKeys, message_id \in MessageIds :
         LET r == IF message_id # <<>>
                  THEN _remember_message_id(mochat.seen_set[key], mochat.seen_queue[key],
                                            message_id)
                  ELSE [seen |-> FALSE, seen_set |-> mochat.seen_set[key],
                        seen_queue |-> mochat.seen_queue[key]]
         IN  mochat' = [mochat EXCEPT
                          !.nEvents = @ + 1,
                          !.seen_set[key] = r.seen_set,
                          !.seen_queue[key] = r.seen_queue,
                          !.last = [done |-> TRUE, path |-> path, key |-> key,
                                    message_id |-> message_id,
                                    before |-> mochat.seen_queue[key],
                                    forwarded |-> ~r.seen]]
    /\ UNCHANGED SeenFrame

SeenInit ==
    /\ OldInit
    /\ cron = NoCron
    /\ store = NoStore
    /\ mochat = [st |-> "seen", seen_set |-> [k \in SeenKeys |-> {}],
                 seen_queue |-> [k \in SeenKeys |-> <<>>], nEvents |-> 0, last |-> NoEvent]
    /\ typing = NoTyping

SeenNext == ProcessInboundEvent

SpecSeen == SeenInit /\ [][SeenNext]_vars
(***************************************************************************)
(* The typing indicators of TelegramChannel and DiscordChannel: the dict   *)
(* _typing_tasks and the tasks that run a typing loop.  A task is the      *)
(* number of the inbound message that started it.                          *)
(***************************************************************************)
TypingKinds == {"telegram", "discord"}
TypingChats == {<<"c1">>, <<"c2">>}
TypingTaskIds == 1..MaxEvents

\* _stop_typing(chat_id): the task of the chat is popped and cancelled
_stop_typing(t, chat_id) ==
    [t EXCEPT !.tasks[chat_id] = 0, !.live = @ \ {t.tasks[chat_id]}]

\* _start_typing(chat_id): _stop_typing, then a new task with the typing loop
_start_typing(t, chat_id, id) ==
    LET s == _stop_typing(t, chat_id) IN
    [s EXCEPT !.tasks[chat_id] = id, !.live = @ \cup {id}]

TypingFrame == <<oldVars, cron, store, mochat>>

\* A message arrives from a sender the allow-list admits or refuses.  Telegram's
\* _on_message starts the typing indicator and then calls _handle_message, which
\* drops the message of a refused sender; Discord's _handle_message_create returns
\* for a refused sender before it starts the indicator
TypingInbound ==
    /\ typing.running
    /\ typing.nInbound < MaxEvents
    /\ \E chat_id \in TypingChats, allowed \in BOOLEAN :
         LET id == typing.nInbound + 1
             counted == [typing EXCEPT !.nInbound = id]
             shown == _start_typing(counted, chat_id, id)
         IN  typing' = IF allowed
                       THEN [shown EXCEPT !.owed = Append(@, chat_id)]
                       ELSE IF typing.kind = "telegram" THEN shown
                       ELSE counted
    /\ UNCHANGED TypingFrame

\* The reply of the agent to the oldest unanswered message is sent: send(msg) stops
\* the typing indicator of msg.chat_id
TypingSend ==
    /\ typing.running
    /\ typing.owed # <<>>
    /\ typing' = [_stop_typing(typing, Head(typing.owed)) EXCEPT !.owed = Tail(typing.owed)]
    /\ UNCHANGED TypingFrame

\* stop(): every typing task is cancelled and the dict is emptied
TypingStop ==
    /\ typing.running
    /\ typing' = [typing EXCEPT !.running = FALSE, !.live = {},
                                !.tasks = [c \in TypingChats |-> 0], !.owed = <<>>]
    /\ UNCHANGED TypingFrame

TypingInit ==
    /\ OldInit
    /\ cron = NoCron
    /\ store = NoStore
    /\ mochat = NoMochat
    /\ \E kind \in TypingKinds :
         typing = [st |-> "adapter", kind |-> kind, running |-> TRUE,
                   tasks |-> [c \in TypingChats |-> 0], live |-> {}, owed |-> <<>>,
                   nInbound |-> 0]

TypingNext ==
    \/ TypingInbound
    \/ TypingSend
    \/ TypingStop

\* The agent answers every message it is given (a reply or the apology) and the
\* dispatcher sends it; nothing obliges the adapter to be stopped
SpecTyping == TypingInit /\ [][TypingNext]_vars /\ WF_vars(TypingSend)
(***************************************************************************)
(* MochatChannel: the watch payloads of sessions, the session cursors and  *)
(* the cold sessions.  _session_cursor maps a session to its cursor if it  *)
(* has one; a field that is missing or no int is NoInt.                    *)
(***************************************************************************)
WatchSessions == {<<"s1">>, <<"s2">>}

\* self._session_cursor.get(session_id, default)
CursorGet(cursors, session_id, default) ==
    IF cursors[session_id].some THEN cursors[session_id].v ELSE default

\* The cursor is stored whatever it is
_mark_session_cursor_mut(cursors, session_id, cursor) ==
    [cursors EXCEPT ![session_id] = SomeInt(cursor)]

\* _mark_session_cursor(session_id, cursor); the debounced save is left out
_mark_session_cursor(cursors, session_id, cursor) ==
    IF cursor < 0 \/ cursor < CursorGet(cursors, session_id, 0) THEN cursors
    ELSE [cursors EXCEPT ![session_id] = SomeInt(cursor)]

\* The for loop of _handle_watch_payload from the i-th event on: the cursors and the
\* events given to _process_inbound_event
RECURSIVE watch_events(_, _, _, _, _, _)
watch_events(cursors, target_id, prev, events, i, forwarded) ==
    IF i > Len(events) THEN [cursors |-> cursors, forwarded |-> forwarded]
    ELSE LET event == events[i]
             marked == IF event.seq.some /\ event.seq.v > CursorGet(cursors, target_id, prev)
                       THEN _mark_session_cursor(cursors, target_id, event.seq.v)
                       ELSE cursors
         IN  watch_events(marked, target_id, prev, events, i + 1,
                          IF event.type = "message.add" THEN Append(forwarded, event)
                          ELSE forwarded)

\* _handle_watch_payload(payload, "session") for the session target_id, under the lock
\* of the target: the cursors, the cold sessions, and the events forwarded
_handle_watch_payload(self, target_id, payload) ==
    LET prev == CursorGet(self.cursors, target_id, 0)
        marked == IF payload.cursor.some /\ payload.cursor.v >= 0
                  THEN _mark_session_cursor(self.cursors, target_id, payload.cursor.v)
                  ELSE self.cursors
    IN  IF ~payload.has_events
        THEN [cursors |-> marked, cold |-> self.cold, forwarded |-> <<>>]
        ELSE IF target_id \in self.cold
        THEN [cursors |-> marked, cold |-> self.cold \ {target_id}, forwarded |-> <<>>]
        ELSE LET r == watch_events(marked, target_id, prev, payload.events, 1, <<>>) IN
             [cursors |-> r.cursors, cold |-> self.cold, forwarded |-> r.forwarded]

\* What a payload or an event carries as cursor or seq: nothing, or any int
CursorValues == {NoInt} \cup {SomeInt(n) : n \in -1..MaxCursor}

WatchEvent(seq, type) == [seq |-> seq, type |-> type]

\* The events lists of a payload
EventLists ==
    {<<>>}
    \cup {<<WatchEvent(seq, type)>> : seq \in CursorValues, type \in {"message.add", "other"}}
    \cup {<<WatchEvent(SomeInt(MaxCursor), "message.add"), WatchEvent(SomeInt(0), "message.add")>>}

\* A payload with no events list, and the payloads with one
WatchPayloads ==
    {[cursor |-> c, has_events |-> FALSE, events |-> <<>>] : c \in CursorValues}
    \cup {[cursor |-> c, has_events |-> TRUE, events |-> es] :
             c \in CursorValues, es \in EventLists}

NoPayload ==
    [done |-> FALSE, session |-> <<>>, was_cold |-> FALSE, was_warmed |-> FALSE,
     cold_after |-> FALSE,
     payload |-> [cursor |-> NoInt, has_events |-> FALSE, events |-> <<>>],
     forwarded |-> <<>>]

WatchFrame == <<oldVars, cron, store, typing>>

\* A watch payload of a session arrives (subscribe ack, socket event, watch worker)
WatchPayload ==
    /\ mochat.nPayloads < MaxPayloads
    /\ \E target_id \in WatchSessions, payload \in WatchPayloads :
         LET r == _handle_watch_payload(mochat, target_id, payload) IN
         mochat' = [mochat EXCEPT
                      !.nPayloads = @ + 1,
                      !.cursors = r.cursors,
                      !.cold = r.cold,
                      !.warmed = IF payload.has_events THEN @ \cup {target_id} ELSE @,
                      !.last = [done |-> TRUE, session |-> target_id,
                                was_cold |-> target_id \in mochat.cold,
                                was_warmed |-> target_id \in mochat.warmed,
                                cold_after |-> target_id \in r.cold,
                                payload |-> payload, forwarded |-> r.forwarded]]
    /\ UNCHANGED WatchFrame

\* The socket connects again: _subscribe_sessions marks the sessions without a cursor
\* as cold
Resubscribe ==
    /\ \E s \in WatchSessions : ~mochat.cursors[s].some /\ s \notin mochat.cold
    /\ mochat' = [mochat EXCEPT
                    !.cold = @ \cup {s \in WatchSessions : ~mochat.cursors[s].some}]
    /\ UNCHANGED WatchFrame

\* start(): _load_session_cursors (cursors that are ints >= 0), then
\* _seed_targets_from_config: the sessions without a cursor are cold
WatchInit ==
    /\ OldInit
    /\ cron = NoCron
    /\ store = NoStore
    /\ \E stored \in [WatchSessions -> {NoInt, SomeInt(0), SomeInt(1)}] :
         mochat = [st |-> "watch", cursors |-> stored,
                   cold |-> {s \in WatchSessions : ~stored[s].some},
                   warmed |-> {}, nPayloads |-> 0, last |-> NoPayload]
    /\ typing = NoTyping

WatchNext ==
    \/ WatchPayload
    \/ Resubscribe

SpecWatch == WatchInit /\ [][WatchNext]_vars
(***************************************************************************)
(* Properties of the agent loop.                                           *)
(***************************************************************************)
Uids(q) == [i \in 1..Len(q) |-> q[i].uid]
InTurn == pc \in {"chat", "tools"}

\* C1: every outbound message the loop publishes in answer to an inbound (reply,
\* system reply, apology) is addressed to the channel and chat_id of that inbound,
\* or, for an inbound of channel "system", to the origin its chat_id encodes.
C1_ReplyAddressedToOrigin ==
    \A i \in 1..Len(lastEmit) :
        LET e == lastEmit[i] IN
        IF IsSystem(e.src)
        THEN IF IndexOf(e.src.chat_id, ":") > 0
             THEN /\ session_key(e.out.channel, e.out.chat_id) = e.src.chat_id
                  /\ IndexOf(e.out.channel, ":") = 0
             ELSE e.out.channel = <<"cli">> /\ e.out.chat_id = e.src.chat_id
        ELSE e.out.channel = e.src.channel /\ e.out.chat_id = e.src.chat_id

\* C5: the metadata of every outbound message the loop publishes for an inbound
\* with metadata M holds every key of M with the same value.
C5_MetadataPreserved ==
    \A i \in 1..Len(lastEmit) :
        lastEmit[i].src.metadata \subseteq lastEmit[i].out.metadata

\* What is left of a turn: the provider calls still allowed, then the tool calls
\* of the current response
TurnRank ==
    IF InTurn
    THEN (max_iterations - iteration) * (MaxToolCalls + 2)
            + (IF pc = "chat" THEN MaxToolCalls + 1 ELSE Len(toolsLeft))
    ELSE -1

\* C2: whatever the provider returns, a turn makes at most max_iterations calls
\* to provider.chat, and every step of the turn brings it nearer to its end.
C2_TurnBounded ==
    /\ [](nCalls <= max_iterations /\ (InTurn => TurnRank >= 0))
    /\ [][(InTurn /\ <<pc, iteration, toolsLeft>>' # <<pc, iteration, toolsLeft>>)
            => TurnRank' < TurnRank]_vars

\* C2 witness: every response of the turn carried tool calls and the bound is reached
C2_Witness ==
    pc = "tools" /\ toolsLeft = <<>> /\ iteration = max_iterations /\ nCalls = max_iterations

TurnEnds == InTurn /\ ~InTurn'
Replied == Len(lastEmit) = 1 /\ lastEmit[1].kind \in {"reply", "sysreply"}

\* C4: a turn that ends without a reply (its processing raised) leaves run() alive:
\* the apology for that inbound is queued on outbound and the loop is back at its
\* wait_for (or has returned because stop() was called); run() ends only by stop().
C4_ErrorDoesNotStopLoop ==
    /\ [](pc \in {"new", "wait", "chat", "tools", "exited"} /\ (pc = "exited" => ~running))
    /\ [][(TurnEnds /\ ~(Replied' /\ lastEmit'[1].src = msg))
            => /\ pc' = (IF running THEN "wait" ELSE "exited")
               /\ Len(lastEmit') = 1
               /\ lastEmit'[1].src = msg
               /\ lastEmit'[1].kind = "apology"
               /\ Len(outbound') = Len(outbound) + 1
               /\ outbound'[Len(outbound')].content[1] = "Sorry, I encountered an error: "
               /\ inbound' = inbound]_vars

\* C4 witness: after the apology for the first inbound the loop processes the second
C4_Witness ==
    /\ Len(lastEmit) = 1 /\ lastEmit[1].kind = "apology" /\ lastEmit[1].src.uid = 1
    /\ InTurn /\ msg.uid = 2

\* C6: run() has at most one inbound in processing at any time and itself publishes
\* at most one outbound message for it (the message tool's own messages apart).
C6_OneAtATime ==
    /\ Cardinality(active) <= 1
    /\ nEmit <= 1
    /\ (InTurn => active = {msg.uid} /\ nEmit = 0)

\* C6 witness: one inbound consumed and answered once, a tool message beside the
\* reply, and the next inbound still queued
C6_Witness ==
    Len(conLog) = 1 /\ nEmit = 1 /\ nOut = 2 /\ inbound # <<>> /\ ~InTurn

Count(q, u) == Cardinality({i \in 1..Len(q) : q[i] = u})

\* Every published inbound is queued or was consumed, once in all
NoLossNoDup ==
    /\ \A u \in 1..nPub : Count(conLog, u) + Count(Uids(inbound), u) = 1
    /\ \A u \in Range(conLog) \cup Range(Uids(inbound)) : u \in 1..nPub

\* C7: every message passed to publish_inbound is either still queued or was
\* returned by consume_inbound, exactly once in all (none lost, none duplicated),
\* whatever the interleaving of producers, time-outs and turns; and it is returned
\* to the loop eventually unless run() has returned after stop().
C7_NoLossNoDup ==
    /\ []NoLossNoDup
    /\ \A u \in 1..MaxMsgs : (nPub >= u) ~> (Count(conLog, u) = 1 \/ pc = "exited")

\* C7 witness: every message published, some of them during a turn, has been consumed
C7_Witness ==
    Len(conLog) = MaxMsgs /\ inbound = <<>> /\ pc = "wait"

(***************************************************************************)
(* Properties of the bus.                                                  *)
(***************************************************************************)
\* C8: each queue is FIFO: the uids consumed so far followed by the uids still
\* queued are 1, 2, ..., the order in which the publish calls completed.
C8_QueuesAreFifo ==
    /\ conLog \o Uids(inbound) = [i \in 1..nPub |-> i]
    /\ outConLog \o Uids(outbound) = [i \in 1..nOut |-> i]

\* C8 witness: on each queue several messages were published and all consumed
C8_Witness ==
    /\ nPub = MaxMsgs /\ Len(conLog) = MaxMsgs
    /\ nOut = MaxOut /\ Len(outConLog) = MaxOut

(***************************************************************************)
(* Properties of the channel access check.                                 *)
(***************************************************************************)
\* The sender is allowed as the contract words it: the list is empty, or holds the
\* sender_id, or the sender_id holds "|" and the list holds one of its non-empty
\* components (a maximal run of characters other than "|")
AllowedByContract(list, s) ==
    \/ list = {}
    \/ s \in list
    \/ /\ \E i \in 1..Len(s) : s[i] = "|"
       /\ \E a \in 1..Len(s), b \in 1..Len(s) :
            /\ a <= b
            /\ \A j \in a..b : s[j] # "|"
            /\ (a = 1 \/ s[a - 1] = "|")
            /\ (b = Len(s) \/ s[b + 1] = "|")
            /\ SubSeq(s, a, b) \in list

\* C3: _handle_message publishes an InboundMessage if and only if the sender is
\* allowed: the messages on the inbound queue are, in order, one per call with an
\* allowed sender and none for a call with a sender that is not allowed.
C3_PublishIffAllowed ==
    /\ [i \in 1..Len(inbound) |-> inbound[i].sender_id]
         = SelectSeq(handled, LAMBDA s : AllowedByContract(allow_from, s))
    /\ nPub = Len(inbound)

\* C3 witness: with a non-empty list, one call was denied and one was allowed for
\* a component of a compound sender id
C3_Witness ==
    /\ Len(handled) = 2 /\ Len(inbound) = 1
    /\ allow_from # {}
    /\ inbound[1].sender_id \notin allow_from

(***************************************************************************)
(* Properties of the tool registry.                                        *)
(***************************************************************************)
ERROR_EXECUTING(name) == <<"Error executing ", name, ": ">>
INVALID_PARAMETERS(name) == <<"Error: Invalid parameters for tool '", name, "': ">>

\* C9: execute never raises: an unknown name, a validation failure, a schema error
\* and an exception of the tool body each come back as an error string, the last
\* as "Error executing {name}: {message}"; a body that returns has its value returned.
C9_ExecuteNeverRaises ==
    \A i \in 1..Len(lastExec) :
        LET e == lastExec[i]
            name == e.call.name
        IN  /\ ~e.exc
            /\ e.tool = <<>> => e.value = <<"Error: Tool '", name, "' not found">>
            /\ e.tool # <<>> =>
                 LET v == validate_params(e.tool[1], e.call.arguments) IN
                 /\ v.exc => e.value = ERROR_EXECUTING(name) \o v.value
                 /\ (~v.exc /\ v.value # <<>>) => e.value[1] = INVALID_PARAMETERS(name)[1]
                 /\ (~v.exc /\ v.value = <<>> /\ e.body.exc)
                       => e.value = ERROR_EXECUTING(name) \o e.body.value
                 /\ (~v.exc /\ v.value = <<>> /\ ~e.body.exc) => e.value = e.body.value

\* C9 witness: the body of a registered tool ran and raised
C9_Witness ==
    /\ Len(lastExec) = 1
    /\ lastExec[1].ran /\ lastExec[1].body.exc
    /\ lastExec[1].value = ERROR_EXECUTING("echo") \o <<"boom">>

\* C10: the tool body runs only when validate_params returns no error; when it
\* returns errors the body does not run, the result is "Error: Invalid parameters
\* for tool '{name}': " followed by the errors (the missing required key by name),
\* and that string is appended to the messages of the turn as the tool result.
C10_ValidationGatesExecution ==
    \A i \in 1..Len(lastExec) :
        LET e == lastExec[i]
            name == e.call.name
        IN  /\ e.tool = <<>> => ~e.ran
            /\ e.tool # <<>> =>
                 LET v == validate_params(e.tool[1], e.call.arguments) IN
                 /\ e.ran => (~v.exc /\ v.value = <<>>)
                 /\ (~v.exc /\ v.value # <<>>) =>
                      /\ ~e.ran
                      /\ e.value = INVALID_PARAMETERS(name) \o Join(v.value, "; ")
                      /\ Len(e.value) > Len(INVALID_PARAMETERS(name))
                      /\ Len(messages) = nExec
                      /\ messages[nExec] = [role |-> "tool", tool_call_id |-> e.call.id,
                                            name |-> name, content |-> e.value]
                 /\ (e.tool[1] = EchoTool /\ e.call.arguments = JDict(<<>>)) =>
                      e.value = INVALID_PARAMETERS(name) \o <<"missing required ", "text">>

\* C10 witness: an echo call without its text was refused, its error string is a
\* tool result of the turn, and the next tool call was executed after it
C10_Witness ==
    /\ nExec = 2 /\ Len(messages) = 2 /\ Len(lastExec) = 1
    /\ lastExec[1].ran
    /\ messages[1].content = INVALID_PARAMETERS("echo") \o <<"missing required ", "text">>

(***************************************************************************)
(* Properties of parameter validation.                                     *)
(***************************************************************************)
\* A value is of a JSON Schema type (a boolean is not a number)
IsOfType(val, t) ==
    CASE t = "string"  -> val.t = "str"
      [] t = "integer" -> val.t = "int"
      [] t = "number"  -> val.t \in {"int", "float"}
      [] t = "boolean" -> val.t = "bool"
      [] t = "array"   -> val.t = "list"
      [] t = "object"  -> val.t = "dict"
      [] OTHER         -> TRUE

RECURSIVE Violations(_, _, _)
\* The declared constraints val violates, each with the path of the value, as
\* JSON Schema defines them: a keyword binds only the values of its kind
Violations(val, schema, path) ==
    LET at(kind) == {[path |-> path, kind |-> kind]}
        isNum == val.t \in {"int", "float"}
    IN  (IF "type" \in DOMAIN schema /\ ~IsOfType(val, schema.type) THEN at("type") ELSE {})
        \cup (IF "enum" \in DOMAIN schema
                 /\ ~ \E i \in 1..Len(schema.enum) :
                         schema.enum[i].t = val.t /\ schema.enum[i].v = val.v
              THEN at("enum") ELSE {})
        \cup (IF "minimum" \in DOMAIN schema /\ isNum /\ val.v < schema.minimum
              THEN at("minimum") ELSE {})
        \cup (IF "maximum" \in DOMAIN schema /\ isNum /\ val.v > schema.maximum
              THEN at("maximum") ELSE {})
        \cup (IF "minLength" \in DOMAIN schema /\ val.t = "str" /\ Len(val.v) < schema.minLength
              THEN at("minLength") ELSE {})
        \cup (IF "maxLength" \in DOMAIN schema /\ val.t = "str" /\ Len(val.v) > schema.maxLength
              THEN at("maxLength") ELSE {})
        \cup (IF "required" \in DOMAIN schema /\ val.t = "dict"
              THEN {[path |-> PathKey(path, schema.required[i]), kind |-> "required"] :
                       i \in {j \in 1..Len(schema.required) :
                                 schema.required[j] \notin DictKeys(val.v)}}
              ELSE {})
        \cup (IF "properties" \in DOMAIN schema /\ val.t = "dict"
              THEN UNION {Violations(val.v[i].v, schema.properties[val.v[i].k],
                                     PathKey(path, val.v[i].k)) :
                             i \in {j \in 1..Len(val.v) : val.v[j].k \in DOMAIN schema.properties}}
              ELSE {})
        \cup (IF "items" \in DOMAIN schema /\ val.t = "list"
              THEN UNION {Violations(val.v[i], schema.items, PathIndex(path, i - 1)) :
                             i \in 1..Len(val.v)}
              ELSE {})

\* The words by which an error names the kind of constraint
Keyword(kind) ==
    CASE kind = "type"      -> " should be "
      [] kind = "enum"      -> " must be one of "
      [] kind = "minimum"   -> " must be >= "
      [] kind = "maximum"   -> " must be <= "
      [] kind = "minLength" -> " must be at least "
      [] kind = "maxLength" -> " must be at most "

\* The error names the violated constraint: the path of the value and the kind
RefersTo(error, viol) ==
    IF viol.kind = "required"
    THEN error = <<"missing required ">> \o viol.path
    ELSE LET label == IF viol.path = <<>> THEN <<"parameter">> ELSE viol.path
         IN  /\ Len(error) > Len(label)
             /\ SubSeq(error, 1, Len(label)) = label
             /\ error[Len(label) + 1] = Keyword(viol.kind)

\* C11: for an object that satisfies the schema validate_params returns the empty
\* list, and for an object that violates exactly one declared constraint it
\* returns at least one error that names that constraint.
C11_ValidateParams ==
    \A n \in 1..Len(validated) :
        LET c == validated[n]
            viols == Violations(c.params, c.tool.parameters, <<>>)
        IN  /\ ~c.result.exc
            /\ viols = {} => c.result.value = <<>>
            /\ Cardinality(viols) = 1 =>
                  \E i \in 1..Len(c.result.value) :
                      \A viol \in viols : RefersTo(c.result.value[i], viol)

(***************************************************************************)
(* The message list of a turn                                              *)
(***************************************************************************)
HasCalls(m) == "tool_calls" \in DOMAIN m

\* The position of the last assistant message of msgs that carries tool_calls (0: none)
LastCalls(msgs) ==
    IF \E i \in 1..Len(msgs) : HasCalls(msgs[i])
    THEN CHOOSE i \in 1..Len(msgs) :
            HasCalls(msgs[i]) /\ \A k \in (i + 1)..Len(msgs) : ~HasCalls(msgs[k])
    ELSE 0

\* The first n tool calls of the assistant message at position a are answered, in
\* their order, by the n messages that follow it
Answered(msgs, a, n) ==
    /\ a > 0
    /\ a + n <= Len(msgs)
    /\ n <= Len(msgs[a].tool_calls)
    /\ \A k \in 1..n :
          /\ msgs[a + k].role = "tool"
          /\ msgs[a + k].tool_call_id = msgs[a].tool_calls[k].id

\* C12: while the tool calls of a response are executed the message list ends with
\* the assistant message that carries them and one result per executed call, in
\* order and with the call's id; the list sent on the next provider call ends with
\* that assistant message and exactly one result per call; and a tool-result message
\* always has an earlier assistant message that contains its tool_call_id.
C12_ToolResultsPaired ==
    LET a == LastCalls(messages)
        done == Len(messages) - a
    IN  /\ (pc = "tools" /\ nCalls > 0) =>
              /\ Answered(messages, a, done)
              /\ done + Len(toolsLeft) = Len(messages[a].tool_calls)
              /\ \A k \in 1..Len(toolsLeft) :
                    toolsLeft[k].id = messages[a].tool_calls[done + k].id
        /\ (pc = "chat" /\ nCalls > 1) =>
              /\ Answered(messages, a, done)
              /\ done = Len(messages[a].tool_calls)
        /\ \A j \in 1..Len(messages) :
              messages[j].role = "tool" =>
                 \E i \in 1..(j - 1) :
                    /\ HasCalls(messages[i])
                    /\ \E k \in 1..Len(messages[i].tool_calls) :
                          messages[i].tool_calls[k].id = messages[j].tool_call_id

\* The second provider call of a turn is pending with the results of two calls
C12_Witness ==
    /\ pc = "chat"
    /\ nCalls = 2
    /\ Len(messages) >= 3
    /\ messages[Len(messages)].role = "tool"
    /\ messages[Len(messages) - 1].role = "tool"

(***************************************************************************)
(* The end of a turn                                                       *)
(***************************************************************************)
\* The fixed reply of a turn whose loop ran out of iterations
ExhaustionReply(m) == IF IsSystem(m) THEN BACKGROUND_DONE ELSE NO_RESPONSE

\* C13: when the loop of a turn ends after a response with tool calls (so every
\* response of the turn had tool calls), the turn has made exactly max_iterations
\* provider calls and the outbound message it returns has the fixed exhaustion reply
\* as its content.
C13_ExhaustionReply ==
    [][(pc = "tools" /\ pc' \notin {"tools", "chat"}) =>
          /\ toolsLeft = <<>>
          /\ nCalls = max_iterations
          /\ Len(lastEmit') = 1
          /\ lastEmit'[1].src = msg
          /\ lastEmit'[1].kind # "apology" =>
                lastEmit'[1].out.content = ExhaustionReply(msg)]_vars

\* A user turn has ended by exhaustion and its reply is published
C13_Witness ==
    /\ Len(lastEmit) = 1
    /\ lastEmit[1].at = "tools"
    /\ lastEmit[1].kind = "reply"
    /\ lastEmit[1].out.content = NO_RESPONSE

\* C14: the reply of a turn that ended at a response without tool calls has that
\* response's content as its content, whatever the content is.
C14_ReplyIsResponseContent ==
    \A i \in 1..Len(lastEmit) :
        (lastEmit[i].at = "chat" /\ lastEmit[i].kind \in {"reply", "sysreply"}) =>
            lastEmit[i].out.content = lastEmit[i].final

(***************************************************************************)
(* The session of a turn                                                   *)
(***************************************************************************)
\* A step in which a turn completes: _process_message returns its OutboundMessage
Completes ==
    /\ pc \in {"chat", "tools"}
    /\ pc' \notin {"chat", "tools"}
    /\ Len(lastEmit') = 1
    /\ lastEmit'[1].src = msg
    /\ lastEmit'[1].kind \in {"reply", "sysreply"}

\* The step appends user and assistant to the session of key, saves it, and leaves
\* every other session and file as it was
AppendsTwo(key, user, assistant) ==
    /\ key \in DOMAIN sessions
    /\ DOMAIN sessions' = DOMAIN sessions
    /\ sessions'[key] = sessions[key] \o <<[role |-> "user", content |-> user],
                                           [role |-> "assistant", content |-> assistant]>>
    /\ \A k \in DOMAIN sessions \ {key} : sessions'[k] = sessions[k]
    /\ key \in DOMAIN disk'
    /\ disk'[key] = sessions'[key]
    /\ \A k \in DOMAIN disk \ {key} : k \in DOMAIN disk' /\ disk'[k] = disk[k]

\* Between the first provider call of a turn and its end no session changes
MidTurnUntouched ==
    (pc \in {"chat", "tools"} /\ pc' \in {"chat", "tools"}) =>
        (sessions' = sessions /\ disk' = disk)

\* C15 as stated: every turn that completes appends the inbound's content as user
\* and the final content as assistant to the session keyed channel:chat_id of the
\* inbound and saves it; nothing is added in between and no other session changes.
C15_SessionOfInbound ==
    [][/\ Completes =>
             AppendsTwo(session_key(msg.channel, msg.chat_id), msg.content,
                        lastEmit'[1].out.content)
       /\ MidTurnUntouched]_vars

\* What is recorded as the user message of a turn
RecordedUser(m) ==
    IF IsSystem(m) THEN <<"[System: ">> \o m.sender_id \o <<"] ">> \o m.content
    ELSE m.content

\* C15 amended: the session is the one keyed channel:chat_id of the inbound for a
\* normal turn and the one keyed by the origin decoded from chat_id for a system
\* turn, whose user message is the content prefixed with "[System: <sender_id>] ".
C15_SessionOfOrigin ==
    [][/\ Completes =>
             AppendsTwo(session_key(origin.channel, origin.chat_id), RecordedUser(msg),
                        lastEmit'[1].out.content)
       /\ MidTurnUntouched]_vars

\* A system turn has completed and a session of two completed turns is saved
C15_Witness ==
    /\ Len(lastEmit) = 1
    /\ lastEmit[1].kind = "sysreply"
    /\ \E k \in DOMAIN disk : Len(disk[k]) = 4 /\ disk[k] = sessions[k]

(***************************************************************************)
(* The context of the context-aware tools                                  *)
(***************************************************************************)
\* The tools of the loop that keep a (channel, chat_id) context
ContextAware == {"message"}

InboundContext(m) == [channel |-> m.channel, chat_id |-> m.chat_id]

\* C16: whenever a context-aware tool is about to execute in a turn, of run() or of
\* process_direct(), the context stored in the tool is the channel and chat_id of
\* the inbound message of that turn.
C16_ToolContextIsTurnsInbound ==
    /\ (pc = "tools" /\ toolsLeft # <<>> /\ Head(toolsLeft).name \in ContextAware) =>
          toolCtx = InboundContext(msg)
    /\ (dpc = "tools" /\ dtoolsLeft # <<>> /\ Head(dtoolsLeft).name \in ContextAware) =>
          toolCtx = InboundContext(dmsg)

(***************************************************************************)
(* The writers of sessions                                                 *)
(***************************************************************************)
\* A step in which a turn of the agent loop starts or ends
TurnStartsOrEnds ==
    \/ pc = "wait" /\ pc' \in {"chat", "tools"}
    \/ pc \in {"chat", "tools"} /\ pc' \notin {"chat", "tools"}

\* C17: a session or its file changes only in a step of the agent loop that starts
\* or ends a turn, and the session a completing turn saves is the history the turn
\* read at its start followed by the two messages it appends.
C17_LoopIsOnlyWriter ==
    [][/\ (sessions' # sessions \/ disk' # disk) => TurnStartsOrEnds
       /\ Completes =>
             LET key == session_key(origin.channel, origin.chat_id)
             IN  /\ sessions'[key] =
                       histRead \o <<[role |-> "user", content |-> RecordedUser(msg)],
                                     [role |-> "assistant",
                                      content |-> lastEmit'[1].out.content]>>
                 /\ disk'[key] = sessions'[key]]_vars

(***************************************************************************)
(* The routing of sub-agent results                                        *)
(***************************************************************************)
\* C18: in the turn of an announced sub-agent result the decoded origin is the origin
\* the announcement encoded, the session of the turn is the one keyed
\* origin_channel:origin_chat_id, and the reply of the turn is addressed to that
\* channel and chat_id and recorded in that session; also for a chat_id with ":".
C18_OriginRoundTrip ==
    /\ (pc \in {"chat", "tools"} /\ IsSystem(msg) /\ msg.uid \in 1..Len(spawned)) =>
          /\ origin = spawned[msg.uid]
          /\ toolCtx = spawned[msg.uid]
          /\ session_key(spawned[msg.uid].channel, spawned[msg.uid].chat_id)
                \in DOMAIN sessions
    /\ \A i \in 1..Len(lastEmit) :
          LET e == lastEmit[i] IN
          (e.kind = "sysreply" /\ e.src.uid \in 1..Len(spawned)) =>
              LET o == spawned[e.src.uid]
                  key == session_key(o.channel, o.chat_id)
              IN  /\ e.out.channel = o.channel
                  /\ e.out.chat_id = o.chat_id
                  /\ key \in DOMAIN sessions
                  /\ Len(sessions[key]) >= 2
                  /\ sessions[key][Len(sessions[key])] =
                        [role |-> "assistant", content |-> e.out.content]

\* The result of a sub-agent whose origin chat_id contains ":" has been answered
C18_Witness ==
    /\ Len(lastEmit) = 1
    /\ lastEmit[1].kind = "sysreply"
    /\ lastEmit[1].src.uid \in 1..Len(spawned)
    /\ ":" \in Range(spawned[lastEmit[1].src.uid].chat_id)
    /\ lastEmit[1].out.chat_id = spawned[lastEmit[1].src.uid].chat_id

(***************************************************************************)
(* The dispatchers of outbound messages                                    *)
(***************************************************************************)
\* A step in which an awaited subscriber callback returns or raises
CallbackEnds == qpc = "calling" /\ <<qpc, qidx>>' # <<qpc, qidx>>

\* C19: when a subscriber callback ends, raising or not, dispatch_outbound goes on:
\* the next subscriber of the channel is called with the same message, and after the
\* last one every subscriber has been called once in order, the message is not put
\* back, and the loop is at its top again, where it takes the next message.
C19_RaisingSubscriberIsSkipped ==
    [][CallbackEnds =>
          LET list == subs[qmsg.channel] IN
          /\ qpc' # "crashed"
          /\ outbound' = outbound
          /\ IF qidx < Len(list)
             THEN /\ qpc' = "calling"
                  /\ qmsg' = qmsg
                  /\ qcalls'[Len(qcalls')].cb = list[qidx + 1]
             ELSE /\ qpc' = QueueTop
                  /\ [i \in 1..Len(qcalls') |-> qcalls'[i].cb] = list]_vars

\* A callback raised for the first message; for the second message the first
\* subscriber raised and the second one was still called
C19_Witness ==
    /\ qraisedAt = 1
    /\ qpc = "wait"
    /\ Len(qcalls) = 2
    /\ qcalls[1].uid = 2
    /\ qcalls[1].raised

\* The dispatcher has finished with entry i of its log
Handled(i) == i < Len(mlog) \/ mpc # "sending"

\* C20: for every outbound message the dispatcher has taken, send was called exactly
\* once, on the adapter registered under msg.channel, when there is one, and not at
\* all when there is none; the dispatcher takes the messages in queue order, and
\* whatever send did it is back at its wait for the next message unless stop_all has
\* cancelled it.
C20_SendOnceOnRegisteredAdapter ==
    /\ \A i \in 1..Len(mlog) :
          LET e == mlog[i] IN
          /\ e.msg.uid = outConLog[i]
          /\ IF e.msg.channel \in channels
             THEN /\ Len(e.sends) = 1
                  /\ e.sends[1].adapter = e.msg.channel
                  /\ Handled(i) /\ ~cancelled => e.sends[1].outcome \in {"returned", "raised"}
             ELSE e.sends = <<>>
    /\ Len(mlog) = Len(outConLog)
    /\ mpc \in {"new", "wait", "sending", "ended"}
    /\ mpc = "ended" => cancelled
    /\ (mpc = "wait" /\ ~cancelled /\ outbound # <<>>) => ENABLED ManagerConsume

\* The send of the first message raised and the second message, for the same
\* adapter or for no adapter, was handled after it
C20_Witness ==
    /\ Len(mlog) = 2
    /\ mlog[1].sends # <<>>
    /\ mlog[1].sends[1].outcome = "raised"
    /\ mpc = "wait"
    /\ ~cancelled
    /\ mlog[2].sends # <<>> => mlog[2].sends[1].outcome = "returned"
(***************************************************************************)
(* Channel manager start and stop, shutdown of the loops, persistence      *)
(***************************************************************************)
Enabled(c) == chanCfg[c].enabled

\* An enabled channel whose own import and construction succeed
Constructible(c) == Enabled(c) /\ chanCfg[c].fault \in {"none", "start"}

\* C21: adapters exist only for enabled channels, and once the manager was
\* constructed every enabled channel whose own import and construction succeed
\* has its adapter, and once start_all has called the start() of its tasks
\* every such adapter was started, whatever happened to the other channels
C21_FailureOfOneAdapterSparesOthers ==
    /\ channels \subseteq {c \in Range(ChannelOrder) : Enabled(c)}
    /\ spc # "new" =>
         \A c \in Range(ChannelOrder) : Constructible(c) => c \in channels
    /\ spc = "done" =>
         \A c \in Range(ChannelOrder) : Constructible(c) => c \in started

\* The adapters stop_all has called stop() on, in the order of the calls
Stopped == [i \in 1..Len(stopLog) |-> stopLog[i].adapter]

\* C22: stop() is called on an adapter only after the dispatcher was cancelled and
\* has ended; no stop() exception leaves stop_all, and when stop_all is done stop()
\* was called once on every adapter, whichever of them raised; from the
\* cancellation on the dispatcher calls no send and ends none
C22_StopAllStopsDispatcherThenAdapters ==
    /\ [](/\ stopLog # <<>> => cancelled /\ mpc = "ended"
          /\ mstop # "raised"
          /\ mstop = "done" => Stopped = StopOrder)
    /\ [][cancelled => mlog' = mlog]_vars

\* stop_all ran to its end over two adapters although the first stop() raised, the
\* dispatcher having sent a message before
C22_Witness ==
    /\ mstop = "done"
    /\ Len(stopLog) = 2
    /\ stopLog[1].raised
    /\ mlog # <<>>
    /\ mlog[1].sends # <<>>

C24_StopEndsReconnectLoop ==
    /\ (~arunning /\ apc # "new") ~> (apc = "ended")
    /\ [][(~arunning /\ apc # "new") => nAttempts' = nAttempts]_vars

\* C25: while the adapter runs, a lost connection leads to a new attempt (as far
\* as attempts are counted), and every attempt but the first comes after the
\* back-off delay
C25_ReconnectAfterBackoff ==
    /\ (arunning /\ apc = "sleeping" /\ nAttempts < MaxAttempts)
          ~> (apc = "connecting" \/ ~arunning)
    /\ [](nAttempts > 1 => lastGap = "delay")

\* The chat the replies of the turn of inbound m go to
Originating(m) ==
    IF IsSystem(m) THEN ParseOrigin(m.chat_id)
    ELSE [channel |-> m.channel, chat_id |-> m.chat_id]

\* C26: chat() never raises: for a failed LLM call it returns the diagnostic string
\* as content, finish_reason "error" and no tool calls.  The turn ends at that
\* response: the reply carries the diagnostic string to the originating chat and
\* run() is back at the top of its loop; the top-level handler produces no apology
\* for a provider.chat call (the only apology of that step is for a session save
\* that failed).
C26_LLMFailureIsTheReply ==
    /\ [](\A raised \in BOOLEAN, response \in ProviderResponses, e \in AcompletionErrors :
            LET r == chat(raised, response, e) IN
            /\ ~r.exc
            /\ raised => /\ r.response.content = Diagnostic(e)
                         /\ r.response.finish_reason = "error"
                         /\ r.response.tool_calls = <<>>
            /\ ~raised => r.response = response)
    /\ [][(pc = "chat" /\ nEmit' = nEmit + 1) =>
            LET em == lastEmit'[1] IN
            /\ em.kind = "apology" => em.out.content[2] = "save failed"
            /\ em.kind # "apology" =>
                 /\ em.final \in {Diagnostic(e) : e \in AcompletionErrors}
                                   \cup {r.content : r \in ProviderResponses}
                 /\ em.final # None => em.out.content = em.final
                 /\ em.out.channel = Originating(em.src).channel
                 /\ em.out.chat_id = Originating(em.src).chat_id
                 /\ pc' = LoopTop
                 /\ msg' = NoMessage]_vars

\* An LLM call failed and its diagnostic string is the reply of the turn, published
\* after an earlier outbound message of the loop
C26_Witness ==
    /\ Len(lastEmit) = 1
    /\ lastEmit[1].kind = "reply"
    /\ lastEmit[1].at = "chat"
    /\ lastEmit[1].out.content = Diagnostic(<<"timed out">>)
    /\ pc = "wait"
    /\ Len(outbound) >= 2

\* The lines of a session file with the two timestamps of its metadata line blanked
MetadataOf(file) == loads(Split(file, NL)[1]).value.v
BlankTimes(items) ==
    [j \in 1..Len(items) |->
        IF items[j].k \in {<<"created_at">>, <<"updated_at">>}
        THEN Item(items[j].k, JStr(<<>>)) ELSE items[j]]

\* C27: a session saved, loaded by its key and saved again: the load succeeds, the
\* loaded session has the key, the metadata map and the message records of the
\* saved one, every field and the order kept, and the second file is the first one
\* but for the timestamps of the metadata line
C27_SessionRoundTrip ==
    persist.st = "resaved" =>
        /\ ~persist.failed
        /\ persist.loaded.key = persist.session.key
        /\ persist.loaded.metadata = persist.session.metadata
        /\ persist.loaded.messages = persist.session.messages
        /\ Tail(Split(persist.file2, NL)) = Tail(Split(persist.file, NL))
        /\ BlankTimes(MetadataOf(persist.file2)) = BlankTimes(MetadataOf(persist.file))

\* A session whose messages hold a quote, a backslash and a line break, and whose
\* metadata is not empty, went through save, load and save
C27_Witness ==
    /\ persist.st = "resaved"
    /\ Len(persist.loaded.messages) = MaxStored
    /\ \E i \in 1..MaxStored :
         QUOTE \in Range(DictGet(persist.loaded.messages[i].v, <<"content">>).v)
    /\ \E i \in 1..MaxStored :
         NL \in Range(DictGet(persist.loaded.messages[i].v, <<"content">>).v)
    /\ persist.loaded.metadata.v # <<>>
    /\ persist.loaded.updated_at # persist.session.updated_at

\* C28: get_history(N) returns the last min(N, len(messages)) messages of the
\* session in their order, so at most N, each as its role and content only
C28_HistoryIsTail ==
    hist.called =>
        LET len == Len(hist.messages)
            n == IF hist.limit < len THEN hist.limit ELSE len
        IN  /\ Len(hist.result) <= hist.limit
            /\ hist.result = [i \in 1..n |->
                                [role |-> hist.messages[len - n + i].role,
                                 content |-> hist.messages[len - n + i].content]]

\* The registry but for the entry of name
Others(reg, name) == [n \in DOMAIN reg \ {name} |-> reg[n]]

\* C29: after any register and unregister calls has(name) is true exactly when
\* get(name) returns a tool, which is the one tool of that name;
\* get_definitions lists every registered name once; register(tool) leaves tool
\* under its name, in the place of an earlier one, and the others as they were;
\* unregister of an absent name changes nothing, of a present one removes it only
C29_OneToolPerName ==
    /\ \A name \in RegistryNames :
         /\ has(tools, name) <=> get(tools, name) # <<>>
         /\ get(tools, name) # <<>> => get(tools, name)[1].name = name
    /\ LET defs == get_definitions(tools) IN
       /\ Len(defs) = Cardinality(DOMAIN tools)
       /\ \A name \in RegistryNames :
            Cardinality({i \in 1..Len(defs) : defs[i].function.name = name})
                = (IF has(tools, name) THEN 1 ELSE 0)
    /\ lastCall.op = "register" =>
         /\ get(tools, lastCall.name) = lastCall.tool
         /\ Others(tools, lastCall.name) = Others(lastCall.before, lastCall.name)
    /\ lastCall.op = "unregister" =>
         /\ ~has(tools, lastCall.name)
         /\ Others(tools, lastCall.name) = Others(lastCall.before, lastCall.name)
         /\ ~has(lastCall.before, lastCall.name) => tools = lastCall.before

\* A tool was registered under a name that held another tool, beside a second name
C29_Witness ==
    /\ lastCall.op = "register"
    /\ has(lastCall.before, lastCall.name)
    /\ lastCall.before[lastCall.name] # lastCall.tool[1]
    /\ Cardinality(DOMAIN tools) = 2

\* The text of a file outside its comments: what lies from <!-- to --> is dropped,
\* the line breaks kept
RECURSIVE Uncommented(_, _)
Uncommented(s, inside) ==
    IF s = <<>> THEN <<>>
    ELSE IF inside
    THEN (IF Head(s) = NL THEN <<NL>> ELSE <<>>) \o Uncommented(Tail(s), Head(s) # CLOSE)
    ELSE IF Head(s) = OPEN THEN Uncommented(Tail(s), TRUE)
    ELSE <<Head(s)>> \o Uncommented(Tail(s), FALSE)

\* A checkbox with no text after it
EmptyCheckbox(line) == line \in {<<"- [ ]">>, <<"* [ ]">>, <<"- [x]">>, <<"* [x]">>}

\* The file exists and has a line that is not blank, not a comment (a heading line
\* or an HTML comment) and not an empty checkbox
HasTask(file) ==
    /\ file.readable
    /\ LET ls == Split(Uncommented(file.content, FALSE), NL) IN
       \E i \in 1..Len(ls) :
          LET line == strip(ls[i]) IN
          line # <<>> /\ Head(line) # "#" /\ ~EmptyCheckbox(line)

\* C30: a tick invokes the callback exactly when HEARTBEAT.md exists and has such
\* a line, and only a service that is enabled and running ticks
C30_TickCallsIffTask ==
    hb.pc # "none" =>
        /\ hb.tick.ran => (hb.tick.called <=> HasTask(hb.tick.file))
        /\ hb.tick.ran => hb.tick.live
        /\ hb.pc = "calling" => hb.enabled /\ hb.running

\* A schedule is given: every_seconds is a number other than 0, or cron_expr is a
\* non-empty expression
ScheduleGiven(add) ==
    \/ add.every_seconds.some /\ add.every_seconds.v # 0
    \/ add.cron_expr.some /\ add.cron_expr.v # <<>>

IsError(result) ==
    result \in {"Error: message is required for add",
                "Error: no session context (channel/chat_id)",
                "Error: either every_seconds or cron_expr is required"}

\* C31: add creates a job exactly when the context has a channel and a chat_id, the
\* message is not empty and a schedule is given, and else returns an error and
\* leaves the jobs alone; the job created is delivered to the channel and chat_id of
\* the context of the call, on the every_seconds schedule if there is one
C31_CronAddNeedsContext ==
    (cron.st = "tool" /\ cron.last.done) =>
        LET add == cron.last
            ok == /\ add.channel # <<>> /\ add.chat_id # <<>>
                  /\ add.message # <<>>
                  /\ ScheduleGiven(add)
        IN  IF ok
            THEN /\ ~IsError(add.result)
                 /\ Len(cron.jobs) = Len(add.before) + 1
                 /\ SubSeq(cron.jobs, 1, Len(add.before)) = add.before
                 /\ LET job == cron.jobs[Len(cron.jobs)] IN
                    /\ job.payload.deliver
                    /\ job.payload.channel = add.channel
                    /\ job.payload.to = add.chat_id
                    /\ job.payload.message = add.message
                    /\ (add.every_seconds.some /\ add.every_seconds.v # 0)
                          => /\ job.schedule.kind = "every"
                             /\ job.schedule.every_ms = SomeInt(add.every_seconds.v * 1000)
                    /\ ~(add.every_seconds.some /\ add.every_seconds.v # 0)
                          => job.schedule.kind = "cron" /\ job.schedule.expr = add.cron_expr
            ELSE IsError(add.result) /\ cron.jobs = add.before

\* A second job was created under another context than the first, with both an
\* interval and an expression given
C31_Witness ==
    /\ cron.st = "tool"
    /\ Len(cron.jobs) = 2
    /\ cron.jobs[1].payload.channel # cron.jobs[2].payload.channel
    /\ cron.last.every_seconds.some /\ cron.last.every_seconds.v # 0
    /\ cron.last.cron_expr.some /\ cron.last.cron_expr.v # <<>>
    /\ ~IsError(cron.last.result)

\* C32: the queues of the bus have a capacity: a queue never holds all the messages
\* that the producers of a behaviour publish, since a producer at a full queue waits
\* for a message to be consumed
C32_QueuesBounded ==
    /\ Len(inbound) < MaxMsgs
    /\ Len(outbound) < MaxOut

\* The assistant message m of a request is the turn the provider returned as response
IsTurnOf(m, response) ==
    /\ m.role = "assistant"
    /\ m.content = response.content

\* C33: in every request sent to the provider, an assistant message that is a turn
\* returned with reasoning_content carries that reasoning_content
C33_ReasoningRoundTripped ==
    pc = "chat" =>
        \A i \in 1..Len(messages) : \A response \in ThinkingResponses :
            (response.reasoning_content # None /\ IsTurnOf(messages[i], response))
                => /\ "reasoning_content" \in DOMAIN messages[i]
                   /\ messages[i].reasoning_content = response.reasoning_content

\* The messages of the session of key k, none if there is no such session
SessionMessages(ss, k) == IF k \in DOMAIN ss THEN ss[k] ELSE <<>>

\* C34: the step in which an exception leaves _process_message (run answers it with
\* the apology) appends no message to any session and writes no session file
C34_FailedTurnLeavesNoTrace ==
    [][(nEmit' = nEmit + 1 /\ lastEmit'[1].kind = "apology")
          => /\ \A k \in DOMAIN sessions' :
                  SessionMessages(sessions', k) = SessionMessages(sessions, k)
             /\ disk' = disk]_vars

\* C35: different session keys have different session files, so the cached session
\* and the file of a key hold the messages of that key only
C35_KeysShareNoHistory ==
    store.st = "manager" =>
        /\ \A k1, k2 \in store.used :
              k1 # k2 => _get_session_path(k1) # _get_session_path(k2)
        /\ \A k \in store.used :
              /\ Range(StoreGetOrCreate(k)) \subseteq {k}
              /\ Range(store.files[_get_session_path(k)]) \subseteq {k}

\* The entries of the messages forwarded, in the order of forwarding
RECURSIVE Flatten(_)
Flatten(batches) ==
    IF batches = <<>> THEN <<>> ELSE Head(batches).entries \o Flatten(Tail(batches))

\* C36: while the channel runs, the entries dispatched so far followed by the
\* entries in the buffer are the entries that arrived, each once and in arrival
\* order, and a buffer that is not empty has a live timer that will flush it
C36_DelayedEntriesOnce ==
    (mochat.st = "delay" /\ mochat.running) =>
        /\ Flatten(mochat.forwarded) \o mochat.entries = [i \in 1..mochat.nArrived |-> i]
        /\ mochat.entries # <<>> =>
              /\ mochat.timer # 0
              /\ mochat.tasks[mochat.timer] = "sleeping"
        /\ \A t \in TimerTasks : mochat.tasks[t] = "sleeping" => t = mochat.timer

\* Entries were dispatched by the timer and later ones together with a mention, and
\* another entry waits in the buffer
C36_Witness ==
    /\ mochat.st = "delay"
    /\ mochat.running
    /\ Len(mochat.forwarded) = 2
    /\ ~mochat.forwarded[1].was_mentioned
    /\ mochat.forwarded[2].was_mentioned
    /\ Len(mochat.forwarded[2].entries) = 2
    /\ mochat.entries # <<>>

\* C37: for every target key the seen set is the set of the ids in the seen queue,
\* which holds at most MAX_SEEN_MESSAGE_IDS ids, each once; and an event whose
\* messageId is in the queue of its target is not forwarded, whatever delivers it
C37_SeenIdsForwardedOnce ==
    mochat.st = "seen" =>
        /\ \A k \in SeenKeys :
              /\ mochat.seen_set[k] = Range(mochat.seen_queue[k])
              /\ Len(mochat.seen_queue[k]) <= MAX_SEEN_MESSAGE_IDS
              /\ Cardinality(mochat.seen_set[k]) = Len(mochat.seen_queue[k])
        /\ (mochat.last.done /\ mochat.last.message_id # <<>>)
              => (mochat.last.forwarded
                    <=> mochat.last.message_id \notin Range(mochat.last.before))

\* An id came again while it was among the last MAX_SEEN_MESSAGE_IDS ids of its
\* target, after an older id had been pushed out of the full queue
C37_Witness ==
    /\ mochat.st = "seen"
    /\ mochat.last.done
    /\ mochat.last.message_id # <<>>
    /\ ~mochat.last.forwarded
    /\ mochat.last.path = "poll"
    /\ Len(mochat.last.before) = MAX_SEEN_MESSAGE_IDS
    /\ mochat.seen_set[mochat.last.key] # {<<"m1">>, <<"m2">>}
    /\ mochat.nEvents = MaxEvents

\* C38: a chat never has more than one live typing task, the one in _typing_tasks,
\* and every typing task that is started is cancelled at some later time
C38_TypingEventuallyCancelled ==
    /\ [](typing.st = "adapter" =>
              typing.live = {typing.tasks[c] : c \in TypingChats} \ {0})
    /\ \A id \in TypingTaskIds :
          (typing.st = "adapter" /\ id \in typing.live) ~> (id \notin typing.live)

\* The message events of a list, in their order
MessageEvents(events) == SelectSeq(events, LAMBDA e : e.type = "message.add")

\* C39: the first payload with an events list of a session that was cold forwards
\* none of its events, records its cursor and leaves the session not cold, and every
\* later payload with an events list of that session forwards its message events
C39_ColdSessionSkipsFirstPayload ==
    (mochat.st = "watch" /\ mochat.last.done /\ mochat.last.payload.has_events) =>
        /\ (mochat.last.was_cold /\ ~mochat.last.was_warmed)
              => /\ mochat.last.forwarded = <<>>
                 /\ ~mochat.last.cold_after
                 /\ (mochat.last.payload.cursor.some /\ mochat.last.payload.cursor.v >= 0)
                       => /\ mochat.cursors[mochat.last.session].some
                          /\ mochat.cursors[mochat.last.session].v
                                >= mochat.last.payload.cursor.v
        /\ mochat.last.was_warmed
              => mochat.last.forwarded = MessageEvents(mochat.last.payload.events)

\* C40: a step never lowers the cursor of a session or removes it, and a cursor is
\* never negative
C40_CursorMonotonic ==
    [][mochat.st = "watch" =>
          \A s \in WatchSessions :
              /\ mochat'.cursors[s].some => mochat'.cursors[s].v >= 0
              /\ mochat.cursors[s].some
                    => /\ mochat'.cursors[s].some
                       /\ mochat'.cursors[s].v >= mochat.cursors[s].v]_vars

\* A payload with a cursor below the cursor of its session, or a negative one, was
\* handled and the cursor of the session stayed
C40_Witness ==
    /\ mochat.st = "watch"
    /\ mochat.last.done
    /\ mochat.last.payload.cursor.some
    /\ mochat.cursors[mochat.last.session].some
    /\ mochat.last.payload.cursor.v < mochat.cursors[mochat.last.session].v
    /\ mochat.last.payload.has_events
    /\ mochat.last.forwarded # <<>>
    /\ mochat.last.forwarded[1].seq.some
    /\ mochat.last.forwarded[1].seq.v < mochat.cursors[mochat.last.session].v
    /\ \E s \in WatchSessions : s # mochat.last.session /\ s \in mochat.cold
====
